---- MODULE Spec2Model ----
(***************************************************************************)
(* Expense tracker: the validation middleware, the expenses service, the   *)
(* expenses repository and the relational store behind it, as wired by the *)
(* Express applications of the repository.                                 *)
(*                                                                         *)
(* Amounts are counted in thousandths (0.01 is 10, 999999.99 is 999999990).*)
(* Instants are counted in days since 2024-01-01T00:00:00.000Z.            *)
(* A JSON value is a record [k, n, s]: its JavaScript type, its number and *)
(* its characters. Strings are sequences of one-character strings.         *)
(***************************************************************************)
EXTENDS Integers, Sequences, FiniteSets, TLC

VARIABLES store, seq, now, pending, deleted, resp, vin, vmode, verrors,
          listing, pages, stats, paged, req, nodeEnv

vars ==
  <<store, seq, now, pending, deleted, resp, vin, vmode, verrors,
    listing, pages, stats, paged, req, nodeEnv>>

(***************************************************************************)
(* Bounds of the model.                                                    *)
(***************************************************************************)
\* number of storage writes (inserts and updates) a behaviour performs
MaxWrites == 3

(***************************************************************************)
(* JSON values as they arrive in req.body.                                 *)
(***************************************************************************)
Undefined == [k |-> "undefined", n |-> 0, s |-> <<>>]
Null == [k |-> "null", n |-> 0, s |-> <<>>]
Num(x) == [k |-> "number", n |-> x, s |-> <<>>]
Str(cs) == [k |-> "string", n |-> 0, s |-> cs]

\* JavaScript truthiness: undefined, null, "" and 0 are falsy
Falsy(v) ==
  \/ v.k \in {"undefined", "null"}
  \/ v.k = "string" /\ v.s = <<>>
  \/ v.k = "number" /\ v.n = 0

Whitespace == {" "}

\* String.prototype.trim
RECURSIVE TrimStart(_)
TrimStart(cs) ==
  IF cs # <<>> /\ Head(cs) \in Whitespace THEN TrimStart(Tail(cs)) ELSE cs

RECURSIVE TrimEnd(_)
TrimEnd(cs) ==
  IF cs # <<>> /\ cs[Len(cs)] \in Whitespace
  THEN TrimEnd(SubSeq(cs, 1, Len(cs) - 1))
  ELSE cs

Trim(cs) == TrimEnd(TrimStart(cs))

Repeat(c, len) == [i \in 1..len |-> c]

(***************************************************************************)
(* ExpenseValidationRules (entity/expense.entity.ts).                      *)
(***************************************************************************)
NameMaxLength == 255
AmountMin == 10
AmountMax == 999999990
CurrencyMinLength == 3
CurrencyMaxLength == 3
CategoryMaxLength == 100

UpperCase ==
  {"A", "B", "C", "D", "E", "F", "G", "H", "I", "J", "K", "L", "M",
   "N", "O", "P", "Q", "R", "S", "T", "U", "V", "W", "X", "Y", "Z"}

\* /^[A-Z]{3}$/.test(cs)
CurrencyPattern(cs) == Len(cs) = 3 /\ \A i \in 1..3 : cs[i] \in UpperCase

(***************************************************************************)
(* JavaScript numbers that may be NaN (parseInt, Date.prototype.getTime).  *)
(***************************************************************************)
NaN == [nan |-> TRUE, n |-> 0]
N(x) == [nan |-> FALSE, n |-> x]
isNaN(x) == x.nan

DigitValue(c) ==
  CASE c = "0" -> 0 [] c = "1" -> 1 [] c = "2" -> 2 [] c = "3" -> 3
    [] c = "4" -> 4 [] c = "5" -> 5 [] c = "6" -> 6 [] c = "7" -> 7
    [] c = "8" -> 8 [] c = "9" -> 9

Digits == {"0", "1", "2", "3", "4", "5", "6", "7", "8", "9"}

\* the value of the longest prefix of digits, NaN when cs starts with none
RECURSIVE DigitPrefix(_, _, _)
DigitPrefix(cs, acc, seen) ==
  IF cs # <<>> /\ Head(cs) \in Digits
  THEN DigitPrefix(Tail(cs), 10 * acc + DigitValue(Head(cs)), TRUE)
  ELSE IF seen THEN N(acc) ELSE NaN

\* parseInt(cs, 10): leading whitespace, an optional sign, then the digits;
\* whatever follows the digits is ignored
ParseInt(cs) ==
  LET t == TrimStart(cs)
  IN IF t # <<>> /\ Head(t) = "-"
     THEN LET m == DigitPrefix(Tail(t), 0, FALSE)
          IN IF isNaN(m) THEN NaN ELSE N(0 - m.n)
     ELSE IF t # <<>> /\ Head(t) = "+"
     THEN DigitPrefix(Tail(t), 0, FALSE)
     ELSE DigitPrefix(t, 0, FALSE)

(***************************************************************************)
(* new Date(text).getTime(): the instant of a date text, NaN for a text    *)
(* that is no date. Three texts name the instant 2024-01-01T00:00:00.000Z. *)
(***************************************************************************)
Iso2024 == <<"2", "0", "2", "4">>
Iso2024Jan == <<"2", "0", "2", "4", "-", "0", "1">>
Iso2025 == <<"2", "0", "2", "5">>
IsoFull2024 ==
  <<"2", "0", "2", "4", "-", "0", "1", "-", "0", "1", "T",
    "0", "0", ":", "0", "0", ":", "0", "0", ".", "0", "0", "0", "Z">>
NotADate == <<"x">>

DateParse(cs) ==
  CASE cs = Iso2024 -> N(0)
    [] cs = Iso2024Jan -> N(0)
    [] cs = IsoFull2024 -> N(0)
    [] cs = Iso2025 -> N(366)
    [] OTHER -> NaN

\* the instant the storage clock shows before the first write
ClockStart == 700

(***************************************************************************)
(* A request body: one JSON value for each key a client may send.          *)
(***************************************************************************)
BodyKeys ==
  {"name", "amount", "currency", "category", "date",
   "id", "createdAt", "updatedAt", "invalidField"}

EmptyBody == [key \in BodyKeys |-> Undefined]

\* Object.keys(body): JSON carries no undefined, so a key is there iff its
\* value is not undefined
ObjectKeys(body) == {key \in BodyKeys : body[key] # Undefined}

Err(field, message) == [field |-> field, message |-> message]

(***************************************************************************)
(* validateCreateExpense (helpers/middlewares/validator.ts).               *)
(***************************************************************************)
CreateNameErrors(body) ==
  IF \/ Falsy(body.name)
     \/ body.name.k # "string"
     \/ Len(Trim(body.name.s)) = 0
  THEN <<Err("name", "name is required")>>
  ELSE IF Len(body.name.s) > NameMaxLength
  THEN <<Err("name", "name must be at most 255 characters long")>>
  ELSE <<>>

\* variant: both limits exclusive
CreateAmountErrorsExclusive(body) ==
  IF body.amount.k \in {"undefined", "null"}
  THEN <<Err("amount", "amount is required")>>
  ELSE IF body.amount.k # "number"
  THEN <<Err("amount", "amount must be a number")>>
  ELSE IF body.amount.n <= AmountMin
  THEN <<Err("amount", "amount must be at least 0.01")>>
  ELSE IF body.amount.n >= AmountMax
  THEN <<Err("amount", "amount cannot exceed 999999.99")>>
  ELSE <<>>

CreateAmountErrors(body) ==
  IF body.amount.k \in {"undefined", "null"}
  THEN <<Err("amount", "amount is required")>>
  ELSE IF body.amount.k # "number"
  THEN <<Err("amount", "amount must be a number")>>
  ELSE IF body.amount.n < AmountMin
  THEN <<Err("amount", "amount must be at least 0.01")>>
  ELSE IF body.amount.n > AmountMax
  THEN <<Err("amount", "amount cannot exceed 999999.99")>>
  ELSE <<>>

CreateCurrencyErrors(body) ==
  IF Falsy(body.currency) \/ body.currency.k # "string"
  THEN <<Err("currency", "currency is required")>>
  ELSE IF Len(body.currency.s) < CurrencyMinLength
  THEN <<Err("currency", "currency must be at least 3 characters long")>>
  ELSE IF Len(body.currency.s) > CurrencyMaxLength
  THEN <<Err("currency", "currency must be at most 3 characters long")>>
  ELSE IF ~CurrencyPattern(body.currency.s)
  THEN <<Err("currency", "currency format is invalid")>>
  ELSE <<>>

CreateCategoryErrors(body) ==
  IF \/ Falsy(body.category)
     \/ body.category.k # "string"
     \/ Len(Trim(body.category.s)) = 0
  THEN <<Err("category", "category is required")>>
  ELSE IF Len(body.category.s) > CategoryMaxLength
  THEN <<Err("category", "category must be at most 100 characters long")>>
  ELSE <<>>

\* the date check is the same text in both validators
DateErrors(body) ==
  IF body.date.k = "undefined"
  THEN <<>>
  ELSE IF body.date.k # "string"
  THEN <<Err("date", "date must be a valid ISO string")>>
  ELSE IF isNaN(DateParse(body.date.s))
  THEN <<Err("date", "date must be a valid ISO string")>>
  ELSE <<>>

\* variant: stop at the first field that fails
validateCreateExpenseFirstOnly(body) ==
  IF CreateNameErrors(body) # <<>> THEN CreateNameErrors(body)
  ELSE IF CreateAmountErrors(body) # <<>> THEN CreateAmountErrors(body)
  ELSE IF CreateCurrencyErrors(body) # <<>> THEN CreateCurrencyErrors(body)
  ELSE IF CreateCategoryErrors(body) # <<>> THEN CreateCategoryErrors(body)
  ELSE DateErrors(body)

validateCreateExpense(body) ==
  CreateNameErrors(body) \o CreateAmountErrors(body)
    \o CreateCurrencyErrors(body) \o CreateCategoryErrors(body)
    \o DateErrors(body)

(***************************************************************************)
(* validateUpdateExpense (helpers/middlewares/validator.ts).               *)
(***************************************************************************)
UpdateableFields == {"name", "amount", "currency", "category", "date"}

ProvidedFields(body) == {f \in UpdateableFields : body[f] # Undefined}

\* variant: only a body without any key counts as empty
UpdateGeneralErrorsAnyKey(body) ==
  IF ObjectKeys(body) = {}
  THEN <<Err("general", "At least one field must be provided for update")>>
  ELSE <<>>

UpdateGeneralErrors(body) ==
  IF ProvidedFields(body) = {}
  THEN <<Err("general", "At least one field must be provided for update")>>
  ELSE <<>>

\* variant: a name is only asked to be a string of at most 255 characters
UpdateNameErrorsNoBlankCheck(body) ==
  IF body.name.k = "undefined"
  THEN <<>>
  ELSE IF body.name.k # "string"
  THEN <<Err("name", "name cannot be empty")>>
  ELSE IF Len(body.name.s) > NameMaxLength
  THEN <<Err("name", "name must be at most 255 characters long")>>
  ELSE <<>>

UpdateNameErrors(body) ==
  IF body.name.k = "undefined"
  THEN <<>>
  ELSE IF body.name.k # "string" \/ Len(Trim(body.name.s)) = 0
  THEN <<Err("name", "name cannot be empty")>>
  ELSE IF Len(body.name.s) > NameMaxLength
  THEN <<Err("name", "name must be at most 255 characters long")>>
  ELSE <<>>

UpdateAmountErrors(body) ==
  IF body.amount.k = "undefined"
  THEN <<>>
  ELSE IF body.amount.k # "number"
  THEN <<Err("amount", "amount must be a number")>>
  ELSE IF body.amount.n < AmountMin
  THEN <<Err("amount", "amount must be at least 0.01")>>
  ELSE IF body.amount.n > AmountMax
  THEN <<Err("amount", "amount cannot exceed 999999.99")>>
  ELSE <<>>

\* variant: the pattern is tested before the length
UpdateCurrencyErrorsPatternFirst(body) ==
  IF body.currency.k = "undefined"
  THEN <<>>
  ELSE IF body.currency.k # "string"
  THEN <<Err("currency", "currency must be a string")>>
  ELSE IF ~CurrencyPattern(body.currency.s)
  THEN <<Err("currency", "currency format is invalid")>>
  ELSE IF Len(body.currency.s) < CurrencyMinLength
  THEN <<Err("currency", "currency must be at least 3 characters long")>>
  ELSE IF Len(body.currency.s) > CurrencyMaxLength
  THEN <<Err("currency", "currency must be at most 3 characters long")>>
  ELSE <<>>

UpdateCurrencyErrors(body) ==
  IF body.currency.k = "undefined"
  THEN <<>>
  ELSE IF body.currency.k # "string"
  THEN <<Err("currency", "currency must be a string")>>
  ELSE IF Len(body.currency.s) < CurrencyMinLength
  THEN <<Err("currency", "currency must be at least 3 characters long")>>
  ELSE IF Len(body.currency.s) > CurrencyMaxLength
  THEN <<Err("currency", "currency must be at most 3 characters long")>>
  ELSE IF ~CurrencyPattern(body.currency.s)
  THEN <<Err("currency", "currency format is invalid")>>
  ELSE <<>>

UpdateCategoryErrors(body) ==
  IF body.category.k = "undefined"
  THEN <<>>
  ELSE IF body.category.k # "string" \/ Len(Trim(body.category.s)) = 0
  THEN <<Err("category", "category cannot be empty")>>
  ELSE IF Len(body.category.s) > CategoryMaxLength
  THEN <<Err("category", "category must be at most 100 characters long")>>
  ELSE <<>>

validateUpdateExpense(body) ==
  UpdateGeneralErrors(body) \o UpdateNameErrors(body)
    \o UpdateAmountErrors(body) \o UpdateCurrencyErrors(body)
    \o UpdateCategoryErrors(body) \o DateErrors(body)

(***************************************************************************)
(* validateExpenseId (helpers/middlewares/validator.ts): the id parameter  *)
(* is rejected (NaN here) or parsed to req.expenseId.                      *)
(***************************************************************************)
Includes(cs, c) == \E i \in 1..Len(cs) : cs[i] = c

validateExpenseId(idParam) ==
  IF Includes(idParam, ".")
  THEN NaN
  ELSE LET id == ParseInt(idParam)
       IN IF isNaN(id) \/ id.n <= 0 THEN NaN ELSE id

(***************************************************************************)
(* Errors. A text is a sequence of fragments; message.includes(x) is asked *)
(* only for texts x that are whole fragments.                              *)
(***************************************************************************)
HasFragment(text, x) == \E i \in 1..Len(text) : text[i] = x

\* statusCode 0 stands for an error object without a statusCode
Error(name, message, statusCode) ==
  [name |-> name, message |-> message, statusCode |-> statusCode]

\* new CustomError(message, statusCode)
CustomError(message, statusCode) == Error(<<"Error">>, message, statusCode)

createValidationError(message) == CustomError(<<message>>, 400)

createNotFoundError(resource) == CustomError(<<resource, " not found">>, 404)

\* `${error}`: Error.prototype.toString
ErrorToString(error) == error.name \o <<": ">> \o error.message

\* x.trim() on a value that is no string
TypeErrorNotAFunction(what) ==
  Error(<<"TypeError">>, <<what, " is not a function">>, 0)

\* errorHandler: the status and the error text of the response
errorHandler(error) ==
  LET statusCode0 == IF error.statusCode # 0 THEN error.statusCode ELSE 500
      message0 ==
        IF error.message # <<>> THEN error.message
        ELSE <<"Internal Server Error">>
      isValidation == error.name = <<"ValidationError">>
      isCast == error.name = <<"CastError">>
      isJwt == error.name = <<"JsonWebTokenError">>
      isExpired == error.name = <<"TokenExpiredError">>
      isPrisma == HasFragment(error.message, "Prisma")
  IN [status |->
        IF isPrisma THEN 500
        ELSE IF isJwt \/ isExpired THEN 401
        ELSE IF isValidation \/ isCast THEN 400
        ELSE statusCode0,
      error |->
        IF isPrisma THEN <<"Database operation failed">>
        ELSE IF isExpired THEN <<"Token expired">>
        ELSE IF isJwt THEN <<"Invalid token">>
        ELSE IF isCast THEN <<"Invalid data format">>
        ELSE IF isValidation THEN <<"Invalid input data">>
        ELSE message0]

(***************************************************************************)
(* The expenses table and the Prisma client in front of it                 *)
(* (prisma/migrations/20250805132631_init/migration.sql).                  *)
(* A row is [id, name, amount, currency, category, date, createdAt,        *)
(* updatedAt]; the store is the set of rows and seq is the table's         *)
(* AUTOINCREMENT sequence.                                                 *)
(***************************************************************************)
Columns ==
  {"id", "name", "amount", "currency", "category", "date",
   "createdAt", "updatedAt"}

\* a Date object handed to the client
DateValue(t) == [k |-> "date", n |-> t, s |-> <<>>]
InvalidDate == [k |-> "invalid-date", n |-> 0, s |-> <<>>]

\* new Date(v) for a JSON string; for a JSON number, milliseconds since
\* 1970-01-01, 19723 days before 2024-01-01 (a small number stays on that day)
NewDate(v) ==
  IF v.k = "number" THEN DateValue(0 - 19723)
  ELSE LET t == DateParse(v.s)
       IN IF isNaN(t) THEN InvalidDate ELSE DateValue(t.n)

Ids(rows) == {r.id : r \in rows}

RowsById(rows, id) == {r \in rows : r.id = id}

Max(S) == CHOOSE x \in S : \A y \in S : y <= x

\* AUTOINCREMENT: one more than the largest id the table ever held
NextId(rows, sequence) == Max({sequence} \cup Ids(rows)) + 1

PrismaKnownRequestError(text) ==
  Error(<<"Prisma", "ClientKnownRequestError">>, text, 0)

PrismaValidationError(text) ==
  Error(<<"Prisma", "ClientValidationError">>, text, 0)

\* the client accepts a DateTime as a Date or as a full ISO-8601 text
PrismaDateTime(v) ==
  IF v.k = "date" THEN N(v.n)
  ELSE IF v.k = "string" /\ v.s = IsoFull2024 THEN DateParse(v.s)
  ELSE NaN

\* the client checks each argument of data against the column's type
PrismaArgumentOk(key, v) ==
  CASE key \in {"name", "currency", "category"} -> v.k = "string"
    [] key \in {"amount", "id"} -> v.k = "number"
    [] key \in {"date", "createdAt", "updatedAt"} -> ~isNaN(PrismaDateTime(v))
    [] OTHER -> FALSE

PrismaDataOk(data) ==
  \A key \in ObjectKeys(data) : key \in Columns /\ PrismaArgumentOk(key, data[key])

Outcome(rows, row, error) == [rows |-> rows, row |-> row, error |-> error]

\* prisma.expense.create({ data }): data holds name, amount, currency,
\* category and date
PrismaCreate(rows, sequence, clock, data) ==
  IF ~PrismaDataOk(data)
  THEN Outcome(rows, {},
         {PrismaValidationError(<<"Invalid prisma.expense.create invocation">>)})
  ELSE LET row == [id |-> NextId(rows, sequence),
                   name |-> data.name.s,
                   amount |-> data.amount.n,
                   currency |-> data.currency.s,
                   category |-> data.category.s,
                   date |-> PrismaDateTime(data.date).n,
                   createdAt |-> clock,
                   updatedAt |-> clock]
       IN Outcome(rows \cup {row}, {row}, {})

\* the row after UPDATE ... SET <every key of data>; updatedAt is set by
\* the client unless data names it
PrismaUpdatedRow(row, clock, data) ==
  [id |-> IF data.id.k = "undefined" THEN row.id ELSE data.id.n,
   name |-> IF data.name.k = "undefined" THEN row.name ELSE data.name.s,
   amount |-> IF data.amount.k = "undefined" THEN row.amount ELSE data.amount.n,
   currency |->
     IF data.currency.k = "undefined" THEN row.currency ELSE data.currency.s,
   category |->
     IF data.category.k = "undefined" THEN row.category ELSE data.category.s,
   date |->
     IF data.date.k = "undefined" THEN row.date
     ELSE PrismaDateTime(data.date).n,
   createdAt |->
     IF data.createdAt.k = "undefined" THEN row.createdAt
     ELSE PrismaDateTime(data.createdAt).n,
   updatedAt |->
     IF data.updatedAt.k = "undefined" THEN clock
     ELSE PrismaDateTime(data.updatedAt).n]

\* prisma.expense.update({ where: { id }, data })
PrismaUpdate(rows, clock, id, data) ==
  IF ~PrismaDataOk(data)
  THEN Outcome(rows, {},
         {PrismaValidationError(<<"Invalid prisma.expense.update invocation">>)})
  ELSE IF RowsById(rows, id) = {}
  THEN Outcome(rows, {},
         {PrismaKnownRequestError(<<"Record to update not found.">>)})
  ELSE LET old == CHOOSE r \in rows : r.id = id
           new == PrismaUpdatedRow(old, clock, data)
       IN IF new.id \in Ids(rows \ {old})
          THEN Outcome(rows, {},
                 {PrismaKnownRequestError(<<"Unique constraint failed">>)})
          ELSE Outcome((rows \ {old}) \cup {new}, {new}, {})

\* prisma.expense.delete({ where: { id } })
PrismaDelete(rows, id) ==
  IF RowsById(rows, id) = {}
  THEN Outcome(rows, {},
         {PrismaKnownRequestError(<<"Record to delete does not exist">>)})
  ELSE Outcome(rows \ RowsById(rows, id), RowsById(rows, id), {})

(***************************************************************************)
(* ExpensesRepository (expenses/expenses.repository.ts): each method       *)
(* rethrows what the client throws as a plain Error.                       *)
(***************************************************************************)
Rethrow(prefix, error) ==
  Error(<<"Error">>, <<prefix>> \o ErrorToString(error), 0)

RepositoryCreate(rows, sequence, clock, data) ==
  LET o == PrismaCreate(rows, sequence, clock, data)
  IN IF o.error = {} THEN o
     ELSE Outcome(rows, {},
            {Rethrow("Failed to create expense: ", e) : e \in o.error})

\* findById: the row with this id, if any
\* variant: a lookup that falls back to the other rows
RepositoryFindByIdOrAny(rows, id) ==
  IF RowsById(rows, id) # {} THEN RowsById(rows, id) ELSE rows

RepositoryFindById(rows, id) == RowsById(rows, id)

\* update, after its findById has found the row
RepositoryUpdateWrite(rows, clock, id, data) ==
  LET o == PrismaUpdate(rows, clock, id, data)
  IN IF o.error = {} THEN o
     ELSE Outcome(rows, {},
            {Rethrow("Failed to update expense: ", e) : e \in o.error})

\* delete: row is the deleted row (true), empty with no error (false)
RepositoryDelete(rows, id) ==
  LET o == PrismaDelete(rows, id)
  IN IF o.error = {} THEN o
     ELSE IF \A e \in o.error :
               HasFragment(e.message, "Record to delete does not exist")
     THEN Outcome(rows, {}, {})
     ELSE Outcome(rows, {},
            {Rethrow("Failed to delete expense: ", e) : e \in o.error})

(***************************************************************************)
(* ExpensesService (expenses/expenses.service.ts).                         *)
(***************************************************************************)
\* Number.isInteger(id) && id > 0; an undefined req.expenseId is NaN here
ServiceIdOk(id) == ~isNaN(id) /\ id.n > 0

\* !v || v.trim().length === 0, which throws for a truthy v without trim
BlankErrors(v, what, message) ==
  IF Falsy(v) THEN {createValidationError(message)}
  ELSE IF v.k # "string" THEN {TypeErrorNotAFunction(what)}
  ELSE IF Len(Trim(v.s)) = 0 THEN {createValidationError(message)}
  ELSE {}

\* the first element thrown by a sequence of checks
FirstThrown(checks) ==
  IF \A i \in 1..Len(checks) : checks[i] = {}
  THEN {}
  ELSE checks[CHOOSE i \in 1..Len(checks) :
                /\ checks[i] # {}
                /\ \A j \in 1..(i - 1) : checks[j] = {}]

\* isValidDate(v): !isNaN(new Date(v).getTime())
isValidDate(v) == NewDate(v).k = "date"

validateCreateExpenseDto(dto) ==
  FirstThrown(<<
    BlankErrors(dto.name, "dto.name.trim", "Name is required"),
    IF dto.amount.k # "number" \/ dto.amount.n <= 0
    THEN {createValidationError("Amount must be a positive number")}
    ELSE {},
    BlankErrors(dto.currency, "dto.currency.trim", "Currency is required"),
    BlankErrors(dto.category, "dto.category.trim", "Category is required"),
    IF ~Falsy(dto.date) /\ ~isValidDate(dto.date)
    THEN {createValidationError("Invalid date format. Use ISO string format.")}
    ELSE {} >>)

\* expenseData of createExpense: the five fields, date defaulting to now
CreateExpenseData(dto, clock) ==
  [EmptyBody EXCEPT
     !.name = dto.name,
     !.amount = dto.amount,
     !.currency = dto.currency,
     !.category = dto.category,
     !.date = IF Falsy(dto.date) THEN DateValue(clock) ELSE NewDate(dto.date)]

\* what updateExpense throws before it calls the repository
UpdateExpenseErrors(id, updateData) ==
  FirstThrown(<<
    IF ~ServiceIdOk(id) THEN {createValidationError("Invalid expense ID")}
    ELSE {},
    IF ObjectKeys(updateData) = {}
    THEN {createValidationError("No update data provided")}
    ELSE {},
    IF /\ updateData.amount.k # "undefined"
       /\ (updateData.amount.k # "number" \/ updateData.amount.n <= 0)
    THEN {createValidationError("Amount must be a positive number")}
    ELSE {},
    IF updateData.name.k = "undefined" THEN {}
    ELSE BlankErrors(updateData.name, "updateData.name.trim",
                     "Name cannot be empty") >>)

\* updateData as updateExpense hands it on: a date text becomes a Date
UpdateExpenseData(updateData) ==
  IF ~Falsy(updateData.date) /\ updateData.date.k = "string"
  THEN [updateData EXCEPT !.date = NewDate(updateData.date)]
  ELSE updateData

(***************************************************************************)
(* Responses. resp is the response sent by the latest step: the route, the *)
(* request it answers, the status and the JSON body's error, details and   *)
(* data; raced tells that the row an update had looked up was gone when    *)
(* the update wrote.                                                       *)
(***************************************************************************)
NoId == <<>>

Respond(op, idParam, body, status, error, details, data) ==
  [op |-> op, idParam |-> idParam, body |-> body, status |-> status,
   error |-> error, details |-> details, data |-> data, raced |-> FALSE]

NoResponse == Respond("none", NoId, EmptyBody, 0, <<>>, <<>>, {})

\* next(error): the error handler answers
ErrorResponse(op, idParam, body, thrown) ==
  LET h == errorHandler(CHOOSE e \in thrown : TRUE)
  IN Respond(op, idParam, body, h.status, h.error, <<>>, {})

\* res.status(400).json({ success: false, error: 'Validation failed', details })
ValidationFailed(op, idParam, body, details) ==
  Respond(op, idParam, body, 400, <<"Validation failed">>, details, {})

\* res.status(400).json({ success: false, error: 'Invalid expense ID' })
InvalidExpenseId(op, idParam, body) ==
  Respond(op, idParam, body, 400, <<"Invalid expense ID">>, <<>>, {})

\* each insert and each update takes the clock's instant and the clock
\* moves on; a behaviour performs MaxWrites of them, the write of an update
\* in flight counted
CanWrite == now + Cardinality(pending) < ClockStart + MaxWrites

(***************************************************************************)
(* ExpensesController (expenses/expenses.controller.ts), each handler      *)
(* wrapped by catchAsync.                                                  *)
(***************************************************************************)
createExpense(body) ==
  LET thrown == validateCreateExpenseDto(body)
      o == RepositoryCreate(store, seq, now, CreateExpenseData(body, now))
  IN /\ IF thrown # {}
        THEN /\ resp' = ErrorResponse("create", NoId, body, thrown)
             /\ UNCHANGED <<store, seq, now>>
        ELSE IF o.error # {}
        THEN /\ resp' = ErrorResponse("create", NoId, body, o.error)
             /\ UNCHANGED <<store, seq, now>>
        ELSE /\ CanWrite
             /\ store' = o.rows
             /\ seq' = Max(Ids(o.row))
             /\ now' = now + 1
             /\ resp' = Respond("create", NoId, body, 201, <<>>, <<>>, o.row)
     /\ UNCHANGED <<pending, deleted, vin, vmode, verrors,
                  listing, pages, stats, paged, req, nodeEnv>>

getExpenseById(idParam, id) ==
  LET found == IF ServiceIdOk(id) THEN RepositoryFindById(store, id.n) ELSE {}
  IN /\ resp' =
          IF ~ServiceIdOk(id)
          THEN ErrorResponse("get", idParam, EmptyBody,
                             {createValidationError("Invalid expense ID")})
          ELSE IF found = {}
          THEN ErrorResponse("get", idParam, EmptyBody,
                             {createNotFoundError("Expense")})
          ELSE Respond("get", idParam, EmptyBody, 200, <<>>, <<>>, found)
     /\ UNCHANGED <<store, seq, now, pending, deleted, vin, vmode, verrors,
                  listing, pages, stats, paged, req, nodeEnv>>

\* updateExpense up to the repository's findById: it answers when the
\* service throws or no row is found, else the write is still to come
updateExpense(idParam, id, body) ==
  LET thrown == UpdateExpenseErrors(id, body)
  IN /\ IF thrown # {}
        THEN /\ resp' = ErrorResponse("update", idParam, body, thrown)
             /\ pending' = pending
        ELSE IF RepositoryFindById(store, id.n) = {}
        THEN /\ resp' = ErrorResponse("update", idParam, body,
                                      {createNotFoundError("Expense")})
             /\ pending' = pending
        ELSE /\ pending = {}
             /\ CanWrite
             /\ resp' = NoResponse
             /\ pending' = {[idParam |-> idParam, id |-> id.n, body |-> body]}
     /\ UNCHANGED <<store, seq, now, deleted, vin, vmode, verrors,
                  listing, pages, stats, paged, req, nodeEnv>>

\* updateExpense from prisma.expense.update on
UpdateWrite ==
  \E p \in pending :
    LET o == RepositoryUpdateWrite(store, now, p.id, UpdateExpenseData(p.body))
    IN /\ pending' = {}
       /\ IF o.error # {}
          THEN /\ resp' =
                    [ErrorResponse("update", p.idParam, p.body, o.error)
                       EXCEPT !.raced = RowsById(store, p.id) = {}]
               /\ UNCHANGED <<store, now>>
          ELSE /\ store' = o.rows
               /\ now' = now + 1
               /\ resp' = Respond("update", p.idParam, p.body, 200, <<>>, <<>>,
                                  o.row)
       /\ UNCHANGED <<seq, deleted, vin, vmode, verrors,
                  listing, pages, stats, paged, req, nodeEnv>>

deleteExpense(idParam, id) ==
  LET o == RepositoryDelete(store, id.n)
  IN /\ IF ~ServiceIdOk(id)
        THEN /\ resp' = ErrorResponse("delete", idParam, EmptyBody,
                          {createValidationError("Invalid expense ID")})
             /\ UNCHANGED <<store, deleted>>
        ELSE IF o.error # {}
        THEN /\ resp' = ErrorResponse("delete", idParam, EmptyBody, o.error)
             /\ UNCHANGED <<store, deleted>>
        ELSE IF o.row = {}
        THEN /\ resp' = ErrorResponse("delete", idParam, EmptyBody,
                                      {createNotFoundError("Expense")})
             /\ UNCHANGED <<store, deleted>>
        ELSE /\ store' = o.rows
             /\ deleted' = deleted \cup {id.n}
             /\ resp' = Respond("delete", idParam, EmptyBody, 200, <<>>, <<>>,
                                {})
     /\ UNCHANGED <<seq, now, pending, vin, vmode, verrors,
                  listing, pages, stats, paged, req, nodeEnv>>

(***************************************************************************)
(* Listing: parseGetExpensesQuery and getAllExpenses of the service, and   *)
(* findAll, findAllPaginated, findByCategory and findByDateRange of the    *)
(* repository. A query parameter is Undefined or a string.                 *)
(***************************************************************************)
QueryKeys ==
  {"limit", "offset", "fromDate", "toDate", "category", "startDate", "endDate"}

EmptyQuery == [key \in QueryKeys |-> Undefined]

Min(a, b) == IF a <= b THEN a ELSE b

\* variant: the upper limit is exclusive
LimitErrorsBelow100(query) ==
  IF query.limit = Undefined
  THEN {}
  ELSE IF isNaN(ParseInt(query.limit.s)) \/ ParseInt(query.limit.s).n <= 0
  THEN {createValidationError("Limit must be a positive integer")}
  ELSE IF ParseInt(query.limit.s).n >= 100
  THEN {createValidationError("Limit cannot exceed 100")}
  ELSE {}

LimitErrors(query) ==
  IF query.limit = Undefined
  THEN {}
  ELSE IF isNaN(ParseInt(query.limit.s)) \/ ParseInt(query.limit.s).n <= 0
  THEN {createValidationError("Limit must be a positive integer")}
  ELSE IF ParseInt(query.limit.s).n > 100
  THEN {createValidationError("Limit cannot exceed 100")}
  ELSE {}

OffsetErrors(query) ==
  IF query.offset = Undefined
  THEN {}
  ELSE IF isNaN(ParseInt(query.offset.s)) \/ ParseInt(query.offset.s).n < 0
  THEN {createValidationError("Offset must be a non-negative integer")}
  ELSE {}

FromDateErrors(query) ==
  IF query.fromDate # Undefined /\ ~isValidDate(query.fromDate)
  THEN {createValidationError("fromDate must be a valid ISO date string")}
  ELSE {}

ToDateErrors(query) ==
  IF query.toDate # Undefined /\ ~isValidDate(query.toDate)
  THEN {createValidationError("toDate must be a valid ISO date string")}
  ELSE {}

\* variant: equal dates are rejected too
DateRangeErrorsStrict(query) ==
  IF /\ query.fromDate # Undefined
     /\ query.toDate # Undefined
     /\ NewDate(query.fromDate).n >= NewDate(query.toDate).n
  THEN {createValidationError("fromDate cannot be after toDate")}
  ELSE {}

\* reached only when the checks before it have passed
DateRangeErrors(query) ==
  IF /\ query.fromDate # Undefined
     /\ query.toDate # Undefined
     /\ NewDate(query.fromDate).n > NewDate(query.toDate).n
  THEN {createValidationError("fromDate cannot be after toDate")}
  ELSE {}

CategoryErrors(query) ==
  IF query.category # Undefined /\ Len(Trim(query.category.s)) = 0
  THEN {createValidationError("Category cannot be empty")}
  ELSE {}

\* the FindAllOptions of a query that passed every check
QueryOptions(query) ==
  [limit |->
     IF query.limit = Undefined THEN Undefined
     ELSE Num(ParseInt(query.limit.s).n),
   offset |->
     IF query.offset = Undefined THEN Undefined
     ELSE Num(ParseInt(query.offset.s).n),
   fromDate |->
     IF query.fromDate = Undefined THEN Undefined
     ELSE NewDate(query.fromDate),
   toDate |->
     IF query.toDate = Undefined THEN Undefined ELSE NewDate(query.toDate),
   category |->
     IF query.category = Undefined THEN Undefined
     ELSE Str(Trim(query.category.s))]

\* variant: the category is checked first
parseGetExpensesQueryCategoryFirst(query) ==
  LET thrown ==
        FirstThrown(<<CategoryErrors(query), LimitErrors(query),
                      OffsetErrors(query), FromDateErrors(query),
                      ToDateErrors(query), DateRangeErrors(query)>>)
  IN [thrown |-> thrown,
      options |-> IF thrown = {} THEN QueryOptions(query) ELSE EmptyQuery]

parseGetExpensesQuery(query) ==
  LET thrown ==
        FirstThrown(<<LimitErrors(query), OffsetErrors(query),
                      FromDateErrors(query), ToDateErrors(query),
                      DateRangeErrors(query), CategoryErrors(query)>>)
  IN [thrown |-> thrown,
      options |-> IF thrown = {} THEN QueryOptions(query) ELSE EmptyQuery]

\* variant: a row matches when it passes the date filter or the category
WhereEither(options, rows) ==
  {r \in rows :
     \/ /\ Falsy(options.fromDate) \/ r.date >= options.fromDate.n
        /\ Falsy(options.toDate) \/ r.date <= options.toDate.n
     \/ Falsy(options.category) \/ r.category = options.category.s}

\* the where clause findAll and findAllPaginated build from the options
Where(options, rows) ==
  {r \in rows :
     /\ Falsy(options.fromDate) \/ r.date >= options.fromDate.n
     /\ Falsy(options.toDate) \/ r.date <= options.toDate.n
     /\ Falsy(options.category) \/ r.category = options.category.s}

\* variant: rows of one date in ascending id order
RECURSIVE OrderByIdAscending(_)
OrderByIdAscending(rows) ==
  IF rows = {}
  THEN <<>>
  ELSE LET first ==
             CHOOSE r \in rows :
               \A o \in rows \ {r} :
                 r.date > o.date \/ (r.date = o.date /\ r.id < o.id)
       IN <<first>> \o OrderByIdAscending(rows \ {first})

\* orderBy: [{ date: 'desc' }, { id: 'desc' }]
RECURSIVE OrderBy(_)
OrderBy(rows) ==
  IF rows = {}
  THEN <<>>
  ELSE LET first ==
             CHOOSE r \in rows :
               \A o \in rows \ {r} :
                 r.date > o.date \/ (r.date = o.date /\ r.id > o.id)
       IN <<first>> \o OrderBy(rows \ {first})

\* variant: a page starts one row early
SkipTakeOverlap(sorted, skip, take) ==
  SubSeq(sorted, IF skip = 0 THEN 1 ELSE skip, Min(Len(sorted), skip + take))

\* skip and take of findMany
SkipTake(sorted, skip, take) ==
  SubSeq(sorted, skip + 1, Min(Len(sorted), skip + take))

RepositoryFindAll(rows, options) ==
  LET sorted == OrderBy(Where(options, rows))
      skip == IF options.offset # Undefined THEN options.offset.n ELSE 0
      take == IF options.limit # Undefined THEN options.limit.n
              ELSE Len(sorted)
  IN SkipTake(sorted, skip, take)

\* variant: hasNext also when the page ends at the last row
RepositoryFindAllPaginatedInclusive(rows, options) ==
  LET limit == IF Falsy(options.limit) THEN 10 ELSE options.limit.n
      offset == IF Falsy(options.offset) THEN 0 ELSE options.offset.n
      total == Cardinality(Where(options, rows))
  IN [expenses |-> SkipTake(OrderBy(Where(options, rows)), offset, limit),
      total |-> total,
      limit |-> limit,
      offset |-> offset,
      hasNext |-> offset + limit <= total,
      hasPrevious |-> offset > 0]

RepositoryFindAllPaginated(rows, options) ==
  LET limit == IF Falsy(options.limit) THEN 10 ELSE options.limit.n
      offset == IF Falsy(options.offset) THEN 0 ELSE options.offset.n
      total == Cardinality(Where(options, rows))
  IN [expenses |-> SkipTake(OrderBy(Where(options, rows)), offset, limit),
      total |-> total,
      limit |-> limit,
      offset |-> offset,
      hasNext |-> offset + limit < total,
      hasPrevious |-> offset > 0]

RepositoryFindByCategory(rows, category) ==
  OrderBy({r \in rows : r.category = category})

RepositoryFindByDateRange(rows, startDate, endDate) ==
  OrderBy({r \in rows :
             /\ r.date >= NewDate(startDate).n
             /\ r.date <= NewDate(endDate).n})

\* variant: a page only when a limit is given
ServiceGetAllExpensesLimitOnly(rows, query) ==
  LET parsed == parseGetExpensesQuery(query)
      options == parsed.options
      paginated == parsed.thrown = {} /\ options.limit # Undefined
  IN [thrown |-> parsed.thrown,
      queried |-> parsed.thrown = {},
      page |->
        IF paginated THEN {RepositoryFindAllPaginated(rows, options)} ELSE {},
      list |->
        IF parsed.thrown = {} /\ ~paginated
        THEN RepositoryFindAll(rows, options)
        ELSE <<>>]

\* getAllExpenses of the service: a page when limit or offset is given,
\* else the plain list
ServiceGetAllExpenses(rows, query) ==
  LET parsed == parseGetExpensesQuery(query)
      options == parsed.options
      paginated ==
        parsed.thrown = {}
          /\ (options.limit # Undefined \/ options.offset # Undefined)
  IN [thrown |-> parsed.thrown,
      queried |-> parsed.thrown = {},
      page |->
        IF paginated THEN {RepositoryFindAllPaginated(rows, options)} ELSE {},
      list |->
        IF parsed.thrown = {} /\ ~paginated
        THEN RepositoryFindAll(rows, options)
        ELSE <<>>]

ServiceGetExpensesByCategory(rows, category) ==
  LET thrown ==
        IF Falsy(category) \/ Len(Trim(category.s)) = 0
        THEN {createValidationError("Category cannot be empty")}
        ELSE {}
  IN [thrown |-> thrown,
      queried |-> thrown = {},
      list |->
        IF thrown = {}
        THEN RepositoryFindByCategory(rows, Trim(category.s))
        ELSE <<>>]

ServiceGetExpensesByDateRange(rows, startDate, endDate) ==
  LET thrown ==
        IF ~isValidDate(startDate) \/ ~isValidDate(endDate)
        THEN {createValidationError(
                "Invalid date format. Use ISO string format.")}
        ELSE IF NewDate(startDate).n > NewDate(endDate).n
        THEN {createValidationError("Start date cannot be after end date")}
        ELSE {}
  IN [thrown |-> thrown,
      queried |-> thrown = {},
      list |->
        IF thrown = {}
        THEN RepositoryFindByDateRange(rows, startDate, endDate)
        ELSE <<>>]

\* the response of a listing route; pagination is empty for null
ListResponse(op, query, status, error, data, pagination, queried) ==
  [op |-> op, query |-> query, status |-> status, error |-> error,
   data |-> data, count |-> Len(data), pagination |-> pagination,
   queried |-> queried]

NoListing == ListResponse("none", EmptyQuery, 0, <<>>, <<>>, {}, FALSE)

ListErrorResponse(op, query, thrown) ==
  LET h == errorHandler(CHOOSE e \in thrown : TRUE)
  IN ListResponse(op, query, h.status, h.error, <<>>, {}, FALSE)

\* the pagination object of the response: pages is Math.ceil(total / limit),
\* currentPage is Math.floor(offset / limit) + 1
Pagination(page) ==
  [total |-> page.total,
   limit |-> page.limit,
   offset |-> page.offset,
   hasNext |-> page.hasNext,
   hasPrevious |-> page.hasPrevious,
   pages |-> (page.total + page.limit - 1) \div page.limit,
   currentPage |-> (page.offset \div page.limit) + 1]

getAllExpenses(query) ==
  LET result == ServiceGetAllExpenses(store, query)
  IN /\ listing' =
          IF result.thrown # {}
          THEN ListErrorResponse("list", query, result.thrown)
          ELSE IF result.page = {}
          THEN ListResponse("list", query, 200, <<>>, result.list, {}, TRUE)
          ELSE LET page == CHOOSE pg \in result.page : TRUE
               IN ListResponse("list", query, 200, <<>>, page.expenses,
                               {Pagination(page)}, TRUE)
     /\ UNCHANGED <<store, seq, now, pending, deleted, resp, vin, vmode,
                    verrors, stats, paged, req,
                    nodeEnv>>

getExpensesByCategory(query) ==
  LET result == ServiceGetExpensesByCategory(store, query.category)
  IN /\ listing' =
          IF Falsy(query.category) \/ query.category.k # "string"
          THEN ListResponse("category", query, 400,
                            <<"Category query parameter is required">>,
                            <<>>, {}, FALSE)
          ELSE IF result.thrown # {}
          THEN ListErrorResponse("category", query, result.thrown)
          ELSE ListResponse("category", query, 200, <<>>, result.list, {},
                            TRUE)
     /\ UNCHANGED <<store, seq, now, pending, deleted, resp, vin, vmode,
                    verrors, stats, paged, req,
                    nodeEnv>>

getExpensesByDateRange(query) ==
  LET result ==
        ServiceGetExpensesByDateRange(store, query.startDate, query.endDate)
  IN /\ listing' =
          IF \/ Falsy(query.startDate)
             \/ Falsy(query.endDate)
             \/ query.startDate.k # "string"
             \/ query.endDate.k # "string"
          THEN ListResponse("dateRange", query, 400,
                 <<"Both startDate and endDate query parameters are required">>,
                 <<>>, {}, FALSE)
          ELSE IF result.thrown # {}
          THEN ListErrorResponse("dateRange", query, result.thrown)
          ELSE ListResponse("dateRange", query, 200, <<>>, result.list, {},
                            TRUE)
     /\ UNCHANGED <<store, seq, now, pending, deleted, resp, vin, vmode,
                    verrors, stats, paged, req,
                    nodeEnv>>

(***************************************************************************)
(* Statistics: getTotalAmount, getTotalCount and getTotalByCategory of the *)
(* repository, which getExpenseStats of the service issues together and    *)
(* awaits with Promise.all.                                                *)
(***************************************************************************)
RECURSIVE SumAmount(_)
SumAmount(rows) ==
  IF rows = {} THEN 0
  ELSE LET r == CHOOSE x \in rows : TRUE
       IN r.amount + SumAmount(rows \ {r})

\* _sum.amount of aggregate and of groupBy: null (no element) for no row
PrismaSumAmount(rows) == IF rows = {} THEN {} ELSE {SumAmount(rows)}

\* x || 0
OrZero(x) == IF x = {} THEN 0 ELSE CHOOSE n \in x : TRUE

RepositoryGetTotalAmount(rows) == OrZero(PrismaSumAmount(rows))

RepositoryGetTotalCount(rows) == Cardinality(rows)

RowsByCategory(rows, category) == {r \in rows : r.category = category}

\* groupBy({ by: ['category'], _sum: { amount }, _count: { id } })
PrismaGroupByCategory(rows) ==
  {[category |-> c,
    sum |-> PrismaSumAmount(RowsByCategory(rows, c)),
    count |-> Cardinality(RowsByCategory(rows, c))] :
     c \in {r.category : r \in rows}}

\* variant: the groups in ascending order of their sums
SortedBySumAscending(groups) ==
  {s \in [1..Cardinality(groups) -> groups] :
     \A i, j \in 1..Cardinality(groups) :
       i < j => s[i] # s[j] /\ OrZero(s[i].sum) <= OrZero(s[j].sum)}

\* orderBy: { _sum: { amount: 'desc' } }: every order of the groups in
\* which no group stands before one of a larger sum
SortedBySumDescending(groups) ==
  {s \in [1..Cardinality(groups) -> groups] :
     \A i, j \in 1..Cardinality(groups) :
       i < j => s[i] # s[j] /\ OrZero(s[i].sum) >= OrZero(s[j].sum)}

\* the results getTotalByCategory can return: the groups, mapped
RepositoryGetTotalByCategory(rows) ==
  {[i \in 1..Len(s) |->
      [category |-> s[i].category,
       total |-> OrZero(s[i].sum),
       count |-> s[i].count]] :
     s \in SortedBySumDescending(PrismaGroupByCategory(rows))}

\* stats is the GET /api/expenses/stats request: where it stands, what each
\* of the three queries returned (no element: not yet), the tables the
\* queries read, and the status of the response
NoStats ==
  [pc |-> "idle", totalAmount |-> {}, totalCount |-> {}, categories |-> {},
   seen |-> {}, status |-> 0]

\* getExpenseStats of the controller calls the service, which starts the
\* three queries
getExpenseStats ==
  /\ stats.pc # "querying"
  /\ stats' = [NoStats EXCEPT !.pc = "querying"]
  /\ UNCHANGED <<store, seq, now, pending, deleted, resp, vin, vmode, verrors,
                 listing, pages, paged, req, nodeEnv>>

getTotalAmount ==
  /\ stats.pc = "querying"
  /\ stats.totalAmount = {}
  /\ stats' = [stats EXCEPT !.totalAmount = {RepositoryGetTotalAmount(store)},
                            !.seen = @ \cup {store}]
  /\ UNCHANGED <<store, seq, now, pending, deleted, resp, vin, vmode, verrors,
                 listing, pages, paged, req, nodeEnv>>

getTotalCount ==
  /\ stats.pc = "querying"
  /\ stats.totalCount = {}
  /\ stats' = [stats EXCEPT !.totalCount = {RepositoryGetTotalCount(store)},
                            !.seen = @ \cup {store}]
  /\ UNCHANGED <<store, seq, now, pending, deleted, resp, vin, vmode, verrors,
                 listing, pages, paged, req, nodeEnv>>

getTotalByCategory ==
  /\ stats.pc = "querying"
  /\ stats.categories = {}
  /\ \E categories \in RepositoryGetTotalByCategory(store) :
       stats' = [stats EXCEPT !.categories = {categories},
                              !.seen = @ \cup {store}]
  /\ UNCHANGED <<store, seq, now, pending, deleted, resp, vin, vmode, verrors,
                 listing, pages, paged, req, nodeEnv>>

\* Promise.all has resolved: res.status(200).json({ success, data: stats })
StatsResponse ==
  /\ stats.pc = "querying"
  /\ stats.totalAmount # {}
  /\ stats.totalCount # {}
  /\ stats.categories # {}
  /\ stats' = [stats EXCEPT !.pc = "done", !.status = 200]
  /\ UNCHANGED <<store, seq, now, pending, deleted, resp, vin, vmode, verrors,
                 listing, pages, paged, req, nodeEnv>>

\* paged is the paginated GET /api/expenses request whose two queries run
\* as separate steps: where it stands, its query and options, and what
\* findMany and count returned (no element: not yet)
NoPaged ==
  [pc |-> "idle", query |-> EmptyQuery, options |-> EmptyQuery,
   expenses |-> {}, total |-> {}]

\* req is the request on its way through the chain of its route: the stage
\* it is at, what it carries, req.expenseId, the storage call it waits
\* for, the error handed to next, the failure the client threw, the
\* responses sent and the stages run
NoRequest ==
  [pc |-> "idle", route |-> "none", idParam |-> NoId, body |-> EmptyBody,
   query |-> EmptyQuery, expenseId |-> NaN, call |-> "none", thrown |-> {},
   cause |-> {}, sent |-> <<>>, trace |-> <<>>]

(***************************************************************************)
(* The requests of the model.                                              *)
(***************************************************************************)
IdParams == {<<"1">>, <<"2">>, <<"9">>, <<"1", ".", "5">>, <<"a", "b", "c">>}

\* a create body names an expense "A" of 0.01 USD in category "F"
ValidCreateBody ==
  [EmptyBody EXCEPT
     !.name = Str(<<"A">>),
     !.amount = Num(AmountMin),
     !.currency = Str(<<"U", "S", "D">>),
     !.category = Str(<<"F">>)]

CreateBodies ==
  {ValidCreateBody,
   [ValidCreateBody EXCEPT !.date = Str(Iso2024Jan)],
   [ValidCreateBody EXCEPT !.amount = Num(AmountMax + 10)],
   [ValidCreateBody EXCEPT !.currency = Str(<<"u", "s", "d">>)],
   [ValidCreateBody EXCEPT !.amount = Undefined],
   [ValidCreateBody EXCEPT !.name = Num(5)]}

\* the value an update body gives a key
NewValue(key) ==
  CASE key = "name" -> Str(<<"B">>)
    [] key = "amount" -> Num(AmountMax)
    [] key = "currency" -> Str(<<"E", "U", "R">>)
    [] key = "category" -> Str(<<"T">>)
    [] key = "date" -> Str(Iso2025)
    [] key = "id" -> Num(2)
    [] key = "createdAt" -> Str(IsoFull2024)
    [] key = "updatedAt" -> Str(IsoFull2024)
    [] key = "invalidField" -> Str(<<"x">>)

BodyOf(keys) ==
  [key \in BodyKeys |-> IF key \in keys THEN NewValue(key) ELSE Undefined]

\* update bodies: no key, one key, all five fields, the amount with one
\* key that is no field, and two fields with a value out of range
UpdateBodies ==
  {BodyOf({})} \cup {BodyOf({key}) : key \in BodyKeys}
    \cup {BodyOf(UpdateableFields)}
    \cup {BodyOf({"amount", key}) : key \in BodyKeys \ UpdateableFields}
    \cup {[EmptyBody EXCEPT !.amount = Num(AmountMax + 10)],
          [EmptyBody EXCEPT !.currency = Str(<<"u", "s", "d">>)]}

(***************************************************************************)
(* The routes of the application that mounts the validation middleware     *)
(* (its PUT and PATCH routes are the same chain).                          *)
(***************************************************************************)
PostExpenses(body) ==
  IF validateCreateExpense(body) # <<>>
  THEN /\ resp' = ValidationFailed("create", NoId, body,
                                   validateCreateExpense(body))
       /\ UNCHANGED <<store, seq, now, pending, deleted, vin, vmode, verrors,
                  listing, pages, stats, paged, req, nodeEnv>>
  ELSE createExpense(body)

GetExpenseById(idParam) ==
  IF isNaN(validateExpenseId(idParam))
  THEN /\ resp' = InvalidExpenseId("get", idParam, EmptyBody)
       /\ UNCHANGED <<store, seq, now, pending, deleted, vin, vmode, verrors,
                  listing, pages, stats, paged, req, nodeEnv>>
  ELSE getExpenseById(idParam, validateExpenseId(idParam))

PutExpense(idParam, body) ==
  IF isNaN(validateExpenseId(idParam))
  THEN /\ resp' = InvalidExpenseId("update", idParam, body)
       /\ UNCHANGED <<store, seq, now, pending, deleted, vin, vmode, verrors,
                  listing, pages, stats, paged, req, nodeEnv>>
  ELSE IF validateUpdateExpense(body) # <<>>
  THEN /\ resp' = ValidationFailed("update", idParam, body,
                                   validateUpdateExpense(body))
       /\ UNCHANGED <<store, seq, now, pending, deleted, vin, vmode, verrors,
                  listing, pages, stats, paged, req, nodeEnv>>
  ELSE updateExpense(idParam, validateExpenseId(idParam), body)

DeleteExpense(idParam) ==
  IF isNaN(validateExpenseId(idParam))
  THEN /\ resp' = InvalidExpenseId("delete", idParam, EmptyBody)
       /\ UNCHANGED <<store, seq, now, pending, deleted, vin, vmode, verrors,
                  listing, pages, stats, paged, req, nodeEnv>>
  ELSE deleteExpense(idParam, validateExpenseId(idParam))

Init ==
  /\ store = {}
  /\ seq = 0
  /\ now = ClockStart
  /\ pending = {}
  /\ deleted = {}
  /\ resp = NoResponse
  /\ vin = EmptyBody
  /\ vmode = "none"
  /\ verrors = <<>>
  /\ listing = NoListing
  /\ pages = <<>>
  /\ stats = NoStats
  /\ paged = NoPaged
  /\ req = NoRequest
  /\ nodeEnv = "test"

Next ==
  \/ \E body \in CreateBodies : PostExpenses(body)
  \/ \E idParam \in IdParams : GetExpenseById(idParam)
  \/ \E idParam \in IdParams, body \in UpdateBodies : PutExpense(idParam, body)
  \/ UpdateWrite
  \/ \E idParam \in IdParams : DeleteExpense(idParam)

Spec == Init /\ [][Next]_vars

(***************************************************************************)
(* The routes of src/app.ts, which mounts the controller's handlers        *)
(* without the validation middleware: req.expenseId stays undefined.       *)
(***************************************************************************)
AppPostExpenses(body) == createExpense(body)

AppGetExpenseById(idParam) == getExpenseById(idParam, NaN)

AppPutExpense(idParam, body) == updateExpense(idParam, NaN, body)

AppDeleteExpense(idParam) == deleteExpense(idParam, NaN)

NextApp ==
  \/ \E body \in CreateBodies : AppPostExpenses(body)
  \/ \E idParam \in IdParams : AppGetExpenseById(idParam)
  \/ \E idParam \in IdParams, body \in UpdateBodies :
       AppPutExpense(idParam, body)
  \/ \E idParam \in IdParams : AppDeleteExpense(idParam)

SpecApp == Init /\ [][NextApp]_vars

(***************************************************************************)
(* The two payload validators applied to one payload vin: verrors is the   *)
(* details list of the 400 response, empty when next() is called.          *)
(***************************************************************************)
NameValues ==
  {Undefined, Null, Num(5), Str(<<>>), Str(<<" ">>), Str(<<"A">>),
   Str(<<" ", "A">>), Str(Repeat("a", NameMaxLength)),
   Str(Repeat("a", NameMaxLength + 1))}

AmountValues ==
  {Undefined, Null, Str(<<"1">>), Num(0 - 10000), Num(0), Num(AmountMin - 1),
   Num(AmountMin), Num(4500), Num(AmountMax), Num(AmountMax + 1),
   Num(AmountMax + 10)}

CurrencyValues ==
  {Undefined, Null, Num(5), Str(<<>>), Str(<<"U", "S">>),
   Str(<<"U", "S", "D">>), Str(<<"u", "s", "d">>), Str(<<"U", "1", "D">>),
   Str(<<" ", " ", " ">>), Str(<<"U", "S", "D", "X">>)}

CategoryValues ==
  {Undefined, Str(<<>>), Str(<<"F">>),
   Str(Repeat("c", CategoryMaxLength + 1))}

DateValues == {Undefined, Null, Str(IsoFull2024), Str(Iso2025), Str(NotADate)}

ValidatorBodies ==
  {[EmptyBody EXCEPT !.name = name, !.amount = amount, !.currency = currency,
                     !.category = category, !.date = date,
                     !.invalidField = extra] :
     name \in NameValues, amount \in AmountValues,
     currency \in CurrencyValues, category \in CategoryValues,
     date \in DateValues, extra \in {Undefined, Str(<<"x">>)}}

InitValidate ==
  /\ store = {}
  /\ seq = 0
  /\ now = ClockStart
  /\ pending = {}
  /\ deleted = {}
  /\ resp = NoResponse
  /\ vin \in ValidatorBodies
  /\ vmode = "none"
  /\ verrors = <<>>
  /\ listing = NoListing
  /\ pages = <<>>
  /\ stats = NoStats
  /\ paged = NoPaged
  /\ req = NoRequest
  /\ nodeEnv = "test"

RunValidateCreate ==
  /\ vmode = "none"
  /\ vmode' = "create"
  /\ verrors' = validateCreateExpense(vin)
  /\ UNCHANGED <<store, seq, now, pending, deleted, resp, vin, listing, pages,
                 stats, paged, req, nodeEnv>>

RunValidateUpdate ==
  /\ vmode = "none"
  /\ vmode' = "update"
  /\ verrors' = validateUpdateExpense(vin)
  /\ UNCHANGED <<store, seq, now, pending, deleted, resp, vin, listing, pages,
                 stats, paged, req, nodeEnv>>

NextValidate == RunValidateCreate \/ RunValidateUpdate

SpecValidate == InitValidate /\ [][NextValidate]_vars

(***************************************************************************)
(* Properties.                                                             *)
(***************************************************************************)
NotFoundText == <<"Expense", " not found">>

RowValid(r) ==
  /\ AmountMin <= r.amount
  /\ r.amount <= AmountMax
  /\ Len(r.currency) = 3
  /\ \A i \in 1..Len(r.currency) : r.currency[i] \in UpperCase

\* the update request that enters its handler chain in this step, if one
\* does: it is answered at once, or its write is now in flight
UpdateStarted ==
  IF pending = {} /\ pending' # {}
  THEN {[idParam |-> p.idParam, body |-> p.body] : p \in pending'}
  ELSE IF pending' = pending /\ resp' # resp /\ resp'.op = "update"
  THEN {[idParam |-> resp'.idParam, body |-> resp'.body]}
  ELSE {}

\* the update in flight writes (or fails to) in this step
UpdateWritten == pending # {} /\ pending' = {}

\* C1: after any sequence of create, update and delete requests through
\* the HTTP expense routes, every persisted row has an amount within
\* 0.01..999999.99 and a currency of exactly 3 upper-case letters.
C1_PersistedRowsValid == \A r \in store : RowValid(r)

\* C2: a successful update leaves the row's id and createdAt as they were
\* and sets its updatedAt to the storage clock, whatever keys the body holds.
C2_ServerManagedFields ==
  [][(UpdateWritten /\ resp'.status = 200) =>
       \A p \in pending : \A old \in RowsById(store, p.id) :
         \E new \in store' :
           /\ new.id = old.id
           /\ new.createdAt = old.createdAt
           /\ new.updatedAt = now]_vars

\* C3: an update whose body passed validation (at least one valid
\* recognised field) succeeds on its row whatever other keys the body
\* holds: the unrecognised keys cause no error.
C3_UnknownKeysIgnored ==
  [][(UpdateWritten /\ \A p \in pending : RowsById(store, p.id) # {}) =>
       resp'.status = 200]_vars

\* C4: a successful update changes exactly the recognised fields the body
\* supplies (to the supplied values), keeps the other recognised fields, the
\* id and createdAt, and changes no other row.
C4_UpdateFrame ==
  [][(UpdateWritten /\ resp'.status = 200) =>
       \A p \in pending : \A old \in RowsById(store, p.id) :
         \E new \in store' :
           /\ store' \ {new} = store \ {old}
           /\ new.id = old.id
           /\ new.createdAt = old.createdAt
           /\ new.name =
                IF p.body.name = Undefined THEN old.name ELSE p.body.name.s
           /\ new.amount =
                IF p.body.amount = Undefined THEN old.amount
                ELSE p.body.amount.n
           /\ new.currency =
                IF p.body.currency = Undefined THEN old.currency
                ELSE p.body.currency.s
           /\ new.category =
                IF p.body.category = Undefined THEN old.category
                ELSE p.body.category.s
           /\ new.date =
                IF p.body.date = Undefined THEN old.date
                ELSE DateParse(p.body.date.s).n]_vars

C6_RaceEndsNotFound ==
  resp.raced =>
    /\ resp.status = 404
    /\ resp.error = NotFoundText
    /\ RowsById(store, validateExpenseId(resp.idParam).n) = {}

\* C7: a delete of an id that has a row answers 200 and removes the row;
\* every later delete of that id answers 404 'Expense not found'.
C7_DeleteOnce ==
  [][\A idParam \in IdParams :
       (/\ resp' # resp
        /\ resp'.op = "delete"
        /\ resp'.idParam = idParam
        /\ ~isNaN(validateExpenseId(idParam)))
       => LET id == validateExpenseId(idParam).n
          IN /\ id \in Ids(store) =>
                  resp'.status = 200 /\ id \notin Ids(store')
             /\ id \in deleted =>
                  resp'.status = 404 /\ resp'.error = NotFoundText]_vars

\* the messages the validator run reported for one field
Messages(field) ==
  {verrors[i].message : i \in {j \in 1..Len(verrors) : verrors[j].field = field}}

ErrorCount(field) ==
  Cardinality({i \in 1..Len(verrors) : verrors[i].field = field})

RequiredFields == {"name", "amount", "currency", "category"}

\* a create payload that satisfies every field rule of the data model
FullyValid(body) ==
  /\ body.name.k = "string"
  /\ Len(Trim(body.name.s)) > 0
  /\ Len(body.name.s) <= 255
  /\ body.amount.k = "number"
  /\ 10 <= body.amount.n
  /\ body.amount.n <= 999999990
  /\ body.currency.k = "string"
  /\ Len(body.currency.s) = 3
  /\ \A i \in 1..Len(body.currency.s) : body.currency.s[i] \in UpperCase
  /\ body.category.k = "string"
  /\ Len(Trim(body.category.s)) > 0
  /\ Len(body.category.s) <= 100
  /\ \/ body.date.k = "undefined"
     \/ body.date.k = "string" /\ ~isNaN(DateParse(body.date.s))

\* C8: the create validator reports exactly one error for each missing
\* required field, at most one error for any field, and an empty list
\* exactly when the payload is fully valid.
C8_CreateErrorsPerField ==
  vmode = "create" =>
    /\ \A f \in RequiredFields : vin[f] = Undefined => ErrorCount(f) = 1
    /\ \A f \in RequiredFields \cup {"date", "general"} : ErrorCount(f) <= 1
    /\ \A i \in 1..Len(verrors) :
         verrors[i].field \in RequiredFields \cup {"date"}
    /\ (verrors = <<>>) <=> FullyValid(vin)

C8_Witness ==
  /\ vmode = "create"
  /\ \A f \in RequiredFields : vin[f] = Undefined
  /\ vin.date = Str(NotADate)
  /\ Len(verrors) = 5

\* C9: in both modes a numeric amount is accepted exactly when it lies in
\* 0.01..999999.99; below the range the only amount error is 'must be at
\* least', above it the only amount error is 'cannot exceed'.
C9_AmountRange ==
  (vmode # "none" /\ vin.amount.k = "number") =>
    /\ (Messages("amount") = {}) <=>
         (10 <= vin.amount.n /\ vin.amount.n <= 999999990)
    /\ vin.amount.n < 10 =>
         Messages("amount") = {"amount must be at least 0.01"}
    /\ vin.amount.n > 999999990 =>
         Messages("amount") = {"amount cannot exceed 999999.99"}
    /\ ErrorCount("amount") <= 1

C9_Witness ==
  /\ vmode = "update"
  /\ vin.amount = Num(AmountMax + 1)
  /\ Messages("amount") = {"amount cannot exceed 999999.99"}

LengthMessages ==
  {"currency must be at least 3 characters long",
   "currency must be at most 3 characters long"}

CurrencyWellFormed(v) ==
  /\ v.k = "string"
  /\ Len(v.s) = 3
  /\ \A i \in 1..Len(v.s) : v.s[i] \in UpperCase

\* C10 as stated: a supplied currency is accepted exactly when it is a
\* string of 3 upper-case letters; a string of any other length gets a
\* length error and no pattern error, a 3-character string that does not
\* match gets the pattern error, and every rejected currency gets an error.
C10_AnyOtherLength ==
  (vmode # "none" /\ vin.currency.k # "undefined") =>
    /\ (Messages("currency") = {}) <=> CurrencyWellFormed(vin.currency)
    /\ (vin.currency.k = "string" /\ Len(vin.currency.s) # 3) =>
         /\ Messages("currency") # {}
         /\ Messages("currency") \subseteq LengthMessages
    /\ (vin.currency.k = "string" /\ Len(vin.currency.s) = 3
          /\ ~CurrencyWellFormed(vin.currency)) =>
         Messages("currency") = {"currency format is invalid"}

\* C10: as above, except that the create validator reports the empty
\* string as 'currency is required'; the length error is reported for
\* every non-empty string of another length, and for the empty string in
\* update mode.
C10_CurrencyShape ==
  (vmode # "none" /\ vin.currency.k # "undefined") =>
    /\ (Messages("currency") = {}) <=> CurrencyWellFormed(vin.currency)
    /\ (vin.currency.k = "string" /\ Len(vin.currency.s) # 3
          /\ (Len(vin.currency.s) # 0 \/ vmode = "update")) =>
         /\ Messages("currency") # {}
         /\ Messages("currency") \subseteq LengthMessages
    /\ (vin.currency.k = "string" /\ Len(vin.currency.s) = 0
          /\ vmode = "create") =>
         Messages("currency") = {"currency is required"}
    /\ (vin.currency.k = "string" /\ Len(vin.currency.s) = 3
          /\ ~CurrencyWellFormed(vin.currency)) =>
         Messages("currency") = {"currency format is invalid"}

C10_Witness ==
  /\ vmode = "create"
  /\ vin.currency = Str(<<>>)
  /\ Messages("currency") = {"currency is required"}

(***************************************************************************)
(* The listing routes GET /api/expenses and GET /api/expenses/search over  *)
(* a table of up to MaxRows rows, and a client that follows hasNext from   *)
(* the first page: pages holds the data of the pages fetched so far.       *)
(***************************************************************************)
MaxRows == 5

USD == <<"U", "S", "D">>

\* the row POST /api/expenses stores as the i-th for a body with a date
\* '2025' or '2024' (none for every fifth) and a category 'F' or 'T'
ListRow(i) ==
  [id |-> i,
   name |-> <<"A">>,
   amount |-> AmountMin,
   currency |-> USD,
   category |-> IF i % 3 = 0 THEN <<"T">> ELSE <<"F">>,
   date |-> IF i % 5 = 0 THEN ClockStart
            ELSE IF i % 2 = 1 THEN DateParse(Iso2025).n
            ELSE DateParse(Iso2024).n,
   createdAt |-> ClockStart,
   updatedAt |-> ClockStart]

ListStores == SUBSET {ListRow(i) : i \in 1..MaxRows}

LimitParams ==
  {Undefined, Str(<<"0">>), Str(<<"a">>), Str(<<"1">>), Str(<<"2">>),
   Str(<<"2", ".", "5">>), Str(<<"1", "0", "0">>), Str(<<"1", "0", "1">>)}

OffsetParams ==
  {Undefined, Str(<<"0">>), Str(<<"1">>), Str(<<"4">>), Str(<<"5">>),
   Str(<<"-", "1">>)}

DateParams == {Undefined, Str(Iso2024), Str(Iso2025), Str(NotADate)}

CategoryParams == {Undefined, Str(<<"F">>), Str(<<" ", "T", " ">>), Str(<<" ">>)}

ListQueries ==
  {[EmptyQuery EXCEPT !.limit = limit, !.offset = offset,
                      !.fromDate = fromDate, !.toDate = toDate,
                      !.category = category] :
     limit \in LimitParams, offset \in OffsetParams, fromDate \in DateParams,
     toDate \in DateParams, category \in CategoryParams}

SearchQueries ==
  {[EmptyQuery EXCEPT !.category = category, !.startDate = startDate,
                      !.endDate = endDate] :
     category \in CategoryParams \cup {Str(<<>>)}, startDate \in DateParams,
     endDate \in DateParams}

DigitChar(d) == CHOOSE c \in Digits : DigitValue(c) = d

\* the decimal text of a natural number
RECURSIVE FormatInt(_)
FormatInt(n) ==
  IF n < 10 THEN <<DigitChar(n)>>
  ELSE FormatInt(n \div 10) \o <<DigitChar(n % 10)>>

InitList ==
  /\ store \in ListStores
  /\ seq = MaxRows
  /\ now = ClockStart
  /\ pending = {}
  /\ deleted = {}
  /\ resp = NoResponse
  /\ vin = EmptyBody
  /\ vmode = "none"
  /\ verrors = <<>>
  /\ listing = NoListing
  /\ pages = <<>>
  /\ stats = NoStats
  /\ paged = NoPaged
  /\ req = NoRequest
  /\ nodeEnv = "test"

\* GET /api/expenses
GetExpenses(query) ==
  /\ listing = NoListing
  /\ getAllExpenses(query)
  /\ pages' =
       IF /\ listing'.pagination # {}
          /\ query.limit # Undefined
          /\ \A pg \in listing'.pagination : pg.offset = 0
       THEN <<listing'.data>>
       ELSE <<>>

\* the client asks for the page after the one it holds
GetNextPage ==
  /\ pages # <<>>
  /\ \E pg \in listing.pagination :
       /\ pg.hasNext
       /\ getAllExpenses([listing.query EXCEPT
                            !.offset = Str(FormatInt(pg.offset + pg.limit))])
  /\ pages' = Append(pages, listing'.data)

\* GET /api/expenses/search
GetSearch(query) ==
  /\ listing = NoListing
  /\ IF ~Falsy(query.category)
     THEN getExpensesByCategory(query)
     ELSE IF ~Falsy(query.startDate) /\ ~Falsy(query.endDate)
     THEN getExpensesByDateRange(query)
     ELSE /\ listing' =
               ListResponse("search", query, 400,
                 <<"Please provide either category or both startDate and endDate parameters">>,
                 <<>>, {}, FALSE)
          /\ UNCHANGED <<store, seq, now, pending, deleted, resp, vin, vmode,
                         verrors, stats, paged, req,
                    nodeEnv>>
  /\ pages' = <<>>

NextList ==
  \/ \E query \in ListQueries : GetExpenses(query)
  \/ GetNextPage
  \/ \E query \in SearchQueries : GetSearch(query)

SpecList == InitList /\ [][NextList]_vars

(***************************************************************************)
(* The /:id routes of the application with the validation middleware,      *)
(* driven with a wider set of id parameters and few bodies.                *)
(***************************************************************************)
IdParamsWide ==
  IdParams \cup {<<"0">>, <<"-", "1">>, <<"1", "a">>, <<"0", "x", "1">>}

IdUpdateBodies == {BodyOf({}), BodyOf({"name"})}

NextIdRoutes ==
  \/ PostExpenses(ValidCreateBody)
  \/ \E idParam \in IdParamsWide : GetExpenseById(idParam)
  \/ \E idParam \in IdParamsWide, body \in IdUpdateBodies :
       PutExpense(idParam, body)
  \/ UpdateWrite
  \/ \E idParam \in IdParamsWide : DeleteExpense(idParam)

SpecIdRoutes == Init /\ [][NextIdRoutes]_vars

\* C11: an update whose body supplies none of name, amount, currency,
\* category and date (no key at all, or only other keys) is answered, for a
\* valid id, 400 with exactly one error, on field 'general', and neither
\* reads nor writes the store.
C11_EmptyUpdateRejected ==
  [][\A q \in UpdateStarted :
       (/\ ~isNaN(validateExpenseId(q.idParam))
        /\ \A f \in {"name", "amount", "currency", "category", "date"} :
             q.body[f] = Undefined)
       => /\ resp'.op = "update"
          /\ resp'.status = 400
          /\ Len(resp'.details) = 1
          /\ resp'.details[1].field = "general"
          /\ pending' = pending
          /\ store' = store
          /\ seq' = seq]_vars

C11_Witness ==
  /\ resp.op = "update"
  /\ resp.idParam = <<"1">>
  /\ resp.body.invalidField # Undefined
  /\ resp.body.amount = Undefined
  /\ resp.status = 400
  /\ Len(resp.details) = 1
  /\ RowsById(store, 1) # {}

\* the decimal text of a positive integer
IsPositiveDecimal(cs) ==
  /\ cs # <<>>
  /\ \A i \in 1..Len(cs) : cs[i] \in Digits
  /\ Head(cs) # "0"

\* C12: on the /:id routes an id parameter that is not the decimal text of
\* a positive integer is answered 400 'Invalid expense ID' without storage
\* access, and a positive integer id that has no row is answered 404
\* 'Expense not found'.
C12_IdParameter ==
  [][(/\ resp' # resp
      /\ resp'.op \in {"get", "update", "delete"}
      /\ ~UpdateWritten)
     => /\ ~IsPositiveDecimal(resp'.idParam) =>
             /\ resp'.status = 400
             /\ resp'.error = <<"Invalid expense ID">>
             /\ store' = store
        /\ (/\ IsPositiveDecimal(resp'.idParam)
            /\ RowsById(store, ParseInt(resp'.idParam).n) = {}
            /\ resp'.op = "update" => validateUpdateExpense(resp'.body) = <<>>)
           => /\ resp'.status = 404
              /\ resp'.error = NotFoundText]_vars

(***************************************************************************)
(* Properties of the listing routes.                                       *)
(***************************************************************************)
\* the answer to GET /api/expenses
Listed == listing.op = "list"

Supplied(key) == listing.query[key] # Undefined

\* what the checks of the query builder reject, each on its own
LimitBad ==
  /\ Supplied("limit")
  /\ \/ isNaN(ParseInt(listing.query.limit.s))
     \/ ParseInt(listing.query.limit.s).n <= 0
     \/ ParseInt(listing.query.limit.s).n > 100

OffsetBad ==
  /\ Supplied("offset")
  /\ \/ isNaN(ParseInt(listing.query.offset.s))
     \/ ParseInt(listing.query.offset.s).n < 0

FromDateBad ==
  Supplied("fromDate") /\ isNaN(DateParse(listing.query.fromDate.s))

ToDateBad == Supplied("toDate") /\ isNaN(DateParse(listing.query.toDate.s))

BothDates ==
  /\ Supplied("fromDate")
  /\ Supplied("toDate")
  /\ ~FromDateBad
  /\ ~ToDateBad

RangeBad ==
  /\ BothDates
  /\ DateParse(listing.query.fromDate.s).n
       > DateParse(listing.query.toDate.s).n

CategoryBad ==
  Supplied("category") /\ Len(Trim(listing.query.category.s)) = 0

\* the rows that satisfy every supplied filter of the query
Matches(r) ==
  /\ Supplied("fromDate") =>
       r.date >= DateParse(listing.query.fromDate.s).n
  /\ Supplied("toDate") => r.date <= DateParse(listing.query.toDate.s).n
  /\ Supplied("category") => r.category = Trim(listing.query.category.s)

Matching == {r \in store : Matches(r)}

Rows(list) == {list[i] : i \in 1..Len(list)}

\* C13: a supplied limit that does not parse to an integer above 0 fails
\* with 'Limit must be a positive integer', one that parses to more than
\* 100 fails with 'Limit cannot exceed 100', and a limit in 1..100 raises
\* no limit error and is the limit of the page.
C13_LimitChecks ==
  (Listed /\ Supplied("limit")) =>
    LET limit == ParseInt(listing.query.limit.s)
    IN /\ (isNaN(limit) \/ limit.n <= 0) =>
            /\ listing.status = 400
            /\ listing.error = <<"Limit must be a positive integer">>
       /\ (~isNaN(limit) /\ limit.n > 100) =>
            /\ listing.status = 400
            /\ listing.error = <<"Limit cannot exceed 100">>
       /\ (~isNaN(limit) /\ 1 <= limit.n /\ limit.n <= 100) =>
            /\ listing.error \notin {<<"Limit must be a positive integer">>,
                                     <<"Limit cannot exceed 100">>}
            /\ listing.status = 200 =>
                 \A pg \in listing.pagination : pg.limit = limit.n
            /\ listing.status = 200 => listing.pagination # {}

C13_Witness ==
  /\ Listed
  /\ listing.query.limit = Str(<<"1", "0", "1">>)
  /\ listing.query.offset = Str(<<"-", "1">>)
  /\ listing.error = <<"Limit cannot exceed 100">>

\* C14: a rejected list query is answered 400 with one error, that of the
\* first failing check in the order limit, offset, fromDate, toDate,
\* fromDate after toDate, category, and no storage query is issued; a
\* query that fails no check is answered 200.
C14_FirstFailureWins ==
  Listed =>
    LET expected ==
          IF LimitBad
          THEN {<<"Limit must be a positive integer">>,
                <<"Limit cannot exceed 100">>}
          ELSE IF OffsetBad
          THEN {<<"Offset must be a non-negative integer">>}
          ELSE IF FromDateBad
          THEN {<<"fromDate must be a valid ISO date string">>}
          ELSE IF ToDateBad
          THEN {<<"toDate must be a valid ISO date string">>}
          ELSE IF RangeBad
          THEN {<<"fromDate cannot be after toDate">>}
          ELSE IF CategoryBad
          THEN {<<"Category cannot be empty">>}
          ELSE {}
    IN IF expected = {}
       THEN listing.status = 200 /\ listing.queried
       ELSE /\ listing.status = 400
            /\ listing.error \in expected
            /\ ~listing.queried
            /\ listing.data = <<>>
            /\ listing.pagination = {}

C14_Witness ==
  /\ Listed
  /\ listing.query.offset = Str(<<"-", "1">>)
  /\ listing.query.fromDate = Str(NotADate)
  /\ listing.query.category = Str(<<" ">>)
  /\ listing.error = <<"Offset must be a non-negative integer">>
  /\ store # {}

\* C15: with limit and offset acceptable and both dates valid, the list
\* query is rejected with 'fromDate cannot be after toDate' exactly when
\* fromDate > toDate; otherwise, without category and pagination, the list
\* holds exactly the rows with fromDate <= date <= toDate, so for equal
\* dates exactly the rows of that instant.
C15_DateRangeInclusive ==
  (Listed /\ BothDates /\ ~LimitBad /\ ~OffsetBad) =>
    LET from == DateParse(listing.query.fromDate.s).n
        to == DateParse(listing.query.toDate.s).n
    IN /\ (listing.error = <<"fromDate cannot be after toDate">>)
            <=> from > to
       /\ from > to => listing.status = 400
       /\ (/\ from <= to
           /\ ~Supplied("category")
           /\ ~Supplied("limit")
           /\ ~Supplied("offset")) =>
            /\ listing.status = 200
            /\ Rows(listing.data) =
                 {r \in store : from <= r.date /\ r.date <= to}

C15_Witness ==
  /\ Listed
  /\ listing.query.fromDate = Str(Iso2025)
  /\ listing.query.toDate = Str(Iso2025)
  /\ ~Supplied("category")
  /\ ~Supplied("limit")
  /\ ~Supplied("offset")
  /\ listing.status = 200
  /\ Len(listing.data) >= 2
  /\ \E r \in store : r.date < DateParse(Iso2025).n
  /\ \E r \in store : r.date > DateParse(Iso2025).n

\* C16: a list request is answered with a page exactly when limit or
\* offset is supplied; the page's limit is the supplied one or 10, its
\* offset the supplied one or 0; with neither the answer is every matching
\* row, without pagination data.
C16_PaginatedWhenAsked ==
  (Listed /\ listing.status = 200) =>
    /\ (listing.pagination # {}) <=> (Supplied("limit") \/ Supplied("offset"))
    /\ \A pg \in listing.pagination :
         /\ pg.limit =
              IF Supplied("limit") THEN ParseInt(listing.query.limit.s).n
              ELSE 10
         /\ pg.offset =
              IF Supplied("offset") THEN ParseInt(listing.query.offset.s).n
              ELSE 0
    /\ listing.pagination = {} =>
         /\ Rows(listing.data) = Matching
         /\ Len(listing.data) = Cardinality(Matching)

C16_Witness ==
  /\ Listed
  /\ listing.status = 200
  /\ ~Supplied("limit")
  /\ listing.query.offset = Str(<<"1">>)
  /\ \E pg \in listing.pagination : pg.limit = 10 /\ pg.offset = 1
  /\ Len(listing.data) = 4

Max0(x) == IF x < 0 THEN 0 ELSE x

\* C17: a page over total matching rows holds min(limit, max(0, total -
\* offset)) rows, hasNext is offset + limit < total and hasPrevious is
\* offset > 0; at an offset of total or more the page is empty and hasNext
\* is false.
C17_PageArithmetic ==
  (Listed /\ listing.status = 200) =>
    \A pg \in listing.pagination :
      LET total == Cardinality(Matching)
      IN /\ pg.total = total
         /\ Len(listing.data) = Min(pg.limit, Max0(total - pg.offset))
         /\ listing.count = Len(listing.data)
         /\ pg.hasNext <=> (pg.offset + pg.limit < total)
         /\ pg.hasPrevious <=> (pg.offset > 0)
         /\ pg.offset >= total => (listing.data = <<>> /\ ~pg.hasNext)

C17_Witness ==
  /\ Listed
  /\ listing.status = 200
  /\ listing.query.limit = Str(<<"2">>)
  /\ listing.query.offset = Str(<<"4">>)
  /\ Len(listing.data) = 1
  /\ \E pg \in listing.pagination :
       pg.total = 5 /\ ~pg.hasNext /\ pg.hasPrevious

\* C18: every listing (plain, paginated, by category, by date range) is in
\* descending order of date and, for equal dates, descending order of id.
C18_ListingOrder ==
  listing.status = 200 =>
    \A i, j \in 1..Len(listing.data) :
      i < j =>
        \/ listing.data[i].date > listing.data[j].date
        \/ /\ listing.data[i].date = listing.data[j].date
           /\ listing.data[i].id > listing.data[j].id

C18_Witness ==
  /\ listing.op = "dateRange"
  /\ listing.status = 200
  /\ Len(listing.data) >= 3
  /\ listing.data[1].date = listing.data[2].date
  /\ listing.data[2].date > listing.data[3].date

RECURSIVE Concat(_)
Concat(lists) ==
  IF lists = <<>> THEN <<>> ELSE Head(lists) \o Concat(Tail(lists))

\* C19: the pages fetched with one filter and limit L at offsets 0, L,
\* 2L, ... up to the page without a next one are, concatenated, the
\* unpaginated listing for that filter.
C19_PagesPartitionListing ==
  (/\ pages # <<>>
   /\ listing.status = 200
   /\ \A pg \in listing.pagination : ~pg.hasNext) =>
    /\ Concat(pages) =
         RepositoryFindAll(
           store,
           QueryOptions([listing.query EXCEPT !.limit = Undefined,
                                              !.offset = Undefined]))
    /\ Rows(Concat(pages)) = Matching
    /\ Len(Concat(pages)) = Cardinality(Matching)

C19_Witness ==
  /\ Len(pages) = 3
  /\ listing.status = 200
  /\ listing.query.limit = Str(<<"2">>)
  /\ \A pg \in listing.pagination : ~pg.hasNext
  /\ Len(pages[3]) = 1
  /\ pages[1][2].date = pages[2][1].date

\* C20: a list holds exactly the rows that satisfy every supplied filter
\* (category equal to the trimmed parameter, date within the supplied
\* ends); a filter not supplied constrains nothing, and the total of a
\* page counts the rows matching the same filter.
C20_FilterComposition ==
  (Listed /\ listing.status = 200) =>
    /\ Rows(listing.data) \subseteq Matching
    /\ listing.pagination = {} => Rows(listing.data) = Matching
    /\ \A pg \in listing.pagination : pg.total = Cardinality(Matching)
    /\ (/\ ~Supplied("category")
        /\ ~Supplied("fromDate")
        /\ ~Supplied("toDate")
        /\ listing.pagination = {}) => Rows(listing.data) = store

C20_Witness ==
  /\ Listed
  /\ listing.status = 200
  /\ listing.query.category = Str(<<" ", "T", " ">>)
  /\ listing.query.fromDate = Str(Iso2024)
  /\ listing.query.toDate = Str(Iso2025)
  /\ listing.pagination = {}
  /\ Len(listing.data) = 1
  /\ Cardinality(store) = 5

(***************************************************************************)
(* GET /api/expenses/stats next to the writing routes: the three queries   *)
(* of one request are separate steps, between which creates, updates and   *)
(* deletes can run.                                                        *)
(***************************************************************************)
\* expenses of 0.01 USD in category "F" and in category "T"
StatsBodies ==
  {ValidCreateBody, [ValidCreateBody EXCEPT !.category = Str(<<"T">>)]}

\* an update of the amount, to 999999.99
StatsUpdateBodies == {BodyOf({"amount"})}

StatsIdParams == {<<"1">>, <<"2">>}

NextStats ==
  \/ \E body \in StatsBodies : PostExpenses(body)
  \/ \E idParam \in StatsIdParams, body \in StatsUpdateBodies :
       PutExpense(idParam, body)
  \/ UpdateWrite
  \/ \E idParam \in StatsIdParams : DeleteExpense(idParam)
  \/ getExpenseStats
  \/ getTotalAmount
  \/ getTotalCount
  \/ getTotalByCategory
  \/ StatsResponse

SpecStats == Init /\ [][NextStats]_vars

\* the stats request is answered and its three queries read one table
StatsQuiet == stats.pc = "done" /\ Cardinality(stats.seen) = 1

StatsCategories == CHOOSE categories \in stats.categories : TRUE

\* C21: when no write falls between the three queries of a stats request,
\* totalCount is the number of rows, totalAmount is the sum of the amounts,
\* categories holds one entry per category of the table with that
\* category's summed amount and row count, in descending order of the
\* summed amount; for an empty table the result is 0, 0 and no category.
C21_StatsOfQuietStore ==
  StatsQuiet =>
    LET rows == CHOOSE table \in stats.seen : TRUE
        categories == StatsCategories
    IN /\ stats.status = 200
       /\ stats.totalCount = {Cardinality(rows)}
       /\ stats.totalAmount = {SumAmount(rows)}
       /\ {categories[i].category : i \in 1..Len(categories)}
            = {r.category : r \in rows}
       /\ Len(categories) = Cardinality({r.category : r \in rows})
       /\ \A i \in 1..Len(categories) :
            /\ categories[i].total
                 = SumAmount(RowsByCategory(rows, categories[i].category))
            /\ categories[i].count
                 = Cardinality(RowsByCategory(rows, categories[i].category))
       /\ \A i \in 1..(Len(categories) - 1) :
            categories[i].total >= categories[i + 1].total
       /\ rows = {} =>
            /\ stats.totalAmount = {0}
            /\ stats.totalCount = {0}
            /\ categories = <<>>

\* a quiet stats request over two rows in two categories of different sums
C21_Witness ==
  /\ StatsQuiet
  /\ stats.totalCount = {2}
  /\ Len(StatsCategories) = 2
  /\ StatsCategories[1].total > StatsCategories[2].total

RECURSIVE SumOver(_, _)
SumOver(entries, field) ==
  IF entries = <<>> THEN 0
  ELSE Head(entries)[field] + SumOver(Tail(entries), field)

\* C25: in every stats result totalCount is the sum of the categories'
\* counts and totalAmount is the sum of the categories' totals, whatever
\* creates, updates and deletes run between the three queries.
C25_StatsConsistent ==
  stats.pc = "done" =>
    /\ stats.totalCount = {SumOver(StatsCategories, "count")}
    /\ stats.totalAmount = {SumOver(StatsCategories, "total")}

(***************************************************************************)
(* One request on its way through the chain of its route, a step at a      *)
(* time: the validation middleware, the controller's handler under         *)
(* catchAsync, the storage calls of the repository, the error handler.     *)
(***************************************************************************)
\* the middleware in front of each handler of the controller
Middleware(route) ==
  CASE route = "create" -> <<"validateCreateExpense">>
    [] route = "update" -> <<"validateExpenseId", "validateUpdateExpense">>
    [] route \in {"get", "delete"} -> <<"validateExpenseId">>
    [] OTHER -> <<>>

Chain(route) == Middleware(route) \o <<"controller">>

\* next(): the stage after the one the request is at
StageAfter(r) ==
  LET chain == Chain(r.route)
  IN chain[(CHOOSE i \in 1..Len(chain) : chain[i] = r.pc) + 1]

\* res.status(status).json(body)
Body(status, error, details, stack, data) ==
  [status |-> status, error |-> error, details |-> details, stack |-> stack,
   data |-> data]

Send(r, body) == [r EXCEPT !.sent = Append(@, body)]

Traced(r, stage) == [r EXCEPT !.trace = Append(@, stage)]

\* variant: the 400 response of a middleware without the return after it
AfterValidationFallThrough(r, failed, body) ==
  IF failed
  THEN [Send(r, body) EXCEPT !.pc = StageAfter(r)]
  ELSE [r EXCEPT !.pc = StageAfter(r)]

\* the end of a validation middleware: res.status(400).json and return,
\* else next()
AfterValidation(r, failed, body) ==
  IF failed
  THEN [Send(r, body) EXCEPT !.pc = "done"]
  ELSE [r EXCEPT !.pc = StageAfter(r)]

\* variant: a rejection of the handler's promise that nothing catches
catchAsyncUnforwarded(r, thrown) ==
  [r EXCEPT !.pc = "rejected", !.thrown = thrown]

\* catchAsync: Promise.resolve(fn(req, res, next)).catch(next)
catchAsync(r, thrown) == [r EXCEPT !.pc = "errorHandler", !.thrown = thrown]

\* error.stack: the text of the error and the frames below it
ErrorStack(error) == ErrorToString(error) \o <<" at ">>

\* the body errorHandler sends: the stack goes with it in development
ErrorBody(error, env) ==
  LET h == errorHandler(error)
  IN Body(h.status, h.error, <<>>,
          IF env = "development" THEN {ErrorStack(error)} ELSE {}, <<>>)

\* what a handler throws before its first storage call
ControllerThrown(r) ==
  CASE r.route = "create" -> validateCreateExpenseDto(r.body)
    [] r.route \in {"get", "delete"} ->
         IF ServiceIdOk(r.expenseId) THEN {}
         ELSE {createValidationError("Invalid expense ID")}
    [] r.route = "update" -> UpdateExpenseErrors(r.expenseId, r.body)
    [] r.route = "list" -> parseGetExpensesQuery(r.query).thrown
    [] r.route = "search" ->
         IF ~Falsy(r.query.category)
         THEN ServiceGetExpensesByCategory({}, r.query.category).thrown
         ELSE ServiceGetExpensesByDateRange({}, r.query.startDate,
                                            r.query.endDate).thrown
    [] OTHER -> {}

\* searchExpenses answers 400 itself when neither a category nor both
\* dates are given
SearchUnanswerable(r) ==
  /\ r.route = "search"
  /\ Falsy(r.query.category)
  /\ (Falsy(r.query.startDate) \/ Falsy(r.query.endDate))

\* the repository method a handler calls first
FirstCall(r) ==
  CASE r.route = "create" -> "create"
    [] r.route \in {"get", "update"} -> "findById"
    [] r.route = "delete" -> "delete"
    [] r.route = "list" ->
         IF ServiceGetAllExpenses({}, r.query).page # {}
         THEN "findAllPaginated" ELSE "findAll"
    [] r.route = "search" ->
         IF ~Falsy(r.query.category) THEN "findByCategory"
         ELSE "findByDateRange"
    [] OTHER -> "stats"

\* the text each repository method puts before the failure it rethrows
FailurePrefix(call) ==
  CASE call = "create" -> "Failed to create expense: "
    [] call = "findById" -> "Failed to fetch expense: "
    [] call = "update" -> "Failed to update expense: "
    [] call = "delete" -> "Failed to delete expense: "
    [] call = "findAll" -> "Failed to fetch expenses: "
    [] call = "findAllPaginated" -> "Failed to fetch paginated expenses: "
    [] call = "findByCategory" -> "Failed to fetch expenses by category: "
    [] call = "findByDateRange" -> "Failed to fetch expenses by date range: "
    [] call = "getTotalAmount" -> "Failed to get total amount: "
    [] call = "getTotalCount" -> "Failed to get total count: "
    [] OTHER -> "Failed to get totals by category: "

\* what the repository throws when the client throws cause in the call the
\* request waits for; update calls findById inside its own try
RepositoryThrown(r, call, cause) ==
  IF r.route = "update" /\ call = "findById"
  THEN Rethrow(FailurePrefix("update"), Rethrow(FailurePrefix(call), cause))
  ELSE Rethrow(FailurePrefix(call), cause)

\* the request after its handler has thrown a failure of the storage layer
StorageThrown(r, thrown, cause) ==
  [catchAsync(r, thrown) EXCEPT !.cause = cause]

NotFoundThrown(r) == catchAsync(r, {createNotFoundError("Expense")})

ChainState(rows, sequence, clock, gone, r) ==
  [store |-> rows, seq |-> sequence, now |-> clock, deleted |-> gone,
   req |-> r]

Answered(r, status, data) ==
  [Send(r, Body(status, <<>>, <<>>, {}, data)) EXCEPT !.pc = "done"]

\* a row as the data of a response
RowData(row) == <<CHOOSE x \in row : TRUE>>

\* the states after the storage call the request waits for has run
StorageOutcomes(r) ==
  CASE r.call = "create" ->
         LET data == CreateExpenseData(r.body, now)
             o == RepositoryCreate(store, seq, now, data)
         IN IF o.error # {}
            THEN {ChainState(store, seq, now, deleted,
                    StorageThrown(r, o.error,
                                  PrismaCreate(store, seq, now, data).error))}
            ELSE {ChainState(o.rows, Max(Ids(o.row)), now + 1, deleted,
                             Answered(r, 201, RowData(o.row)))}
    [] r.call = "findById" ->
         LET found == RepositoryFindById(store, r.expenseId.n)
         IN IF found = {}
            THEN {ChainState(store, seq, now, deleted, NotFoundThrown(r))}
            ELSE IF r.route = "update"
            THEN {ChainState(store, seq, now, deleted,
                             [r EXCEPT !.call = "update"])}
            ELSE {ChainState(store, seq, now, deleted,
                             Answered(r, 200, RowData(found)))}
    [] r.call = "update" ->
         LET data == UpdateExpenseData(r.body)
             o == RepositoryUpdateWrite(store, now, r.expenseId.n, data)
         IN IF o.error # {}
            THEN {ChainState(store, seq, now, deleted,
                    StorageThrown(r, o.error,
                      PrismaUpdate(store, now, r.expenseId.n, data).error))}
            ELSE {ChainState(o.rows, seq, now + 1, deleted,
                             Answered(r, 200, RowData(o.row)))}
    [] r.call = "delete" ->
         LET o == RepositoryDelete(store, r.expenseId.n)
         IN IF o.error # {}
            THEN {ChainState(store, seq, now, deleted,
                    StorageThrown(r, o.error,
                                  PrismaDelete(store, r.expenseId.n).error))}
            ELSE IF o.row = {}
            THEN {ChainState(store, seq, now, deleted, NotFoundThrown(r))}
            ELSE {ChainState(o.rows, seq, now, deleted \cup {r.expenseId.n},
                             Answered(r, 200, <<>>))}
    [] r.call \in {"findAll", "findAllPaginated"} ->
         LET result == ServiceGetAllExpenses(store, r.query)
         IN {ChainState(store, seq, now, deleted,
               Answered(r, 200,
                 IF result.page = {} THEN result.list
                 ELSE (CHOOSE pg \in result.page : TRUE).expenses))}
    [] r.call = "findByCategory" ->
         {ChainState(store, seq, now, deleted,
            Answered(r, 200,
              ServiceGetExpensesByCategory(store, r.query.category).list))}
    [] r.call = "findByDateRange" ->
         {ChainState(store, seq, now, deleted,
            Answered(r, 200,
              ServiceGetExpensesByDateRange(store, r.query.startDate,
                                            r.query.endDate).list))}
    [] OTHER ->
         {ChainState(store, seq, now, deleted,
            Answered(r, 200,
              <<[totalAmount |-> RepositoryGetTotalAmount(store),
                 totalCount |-> RepositoryGetTotalCount(store),
                 categories |-> categories]>>)) :
            categories \in RepositoryGetTotalByCategory(store)}

\* the failures of the storage engine that the client reports whatever the
\* request is: no connection from the pool in time, no database to reach
StorageFaults ==
  {Error(<<"Prisma", "ClientKnownRequestError">>,
         <<"Timed out fetching a new connection from the connection pool">>,
         0),
   Error(<<"Prisma", "ClientInitializationError">>,
         <<"Cannot reach database server">>, 0)}

\* the repository methods that the storage call of a request stands for
CallsOf(call) ==
  IF call = "stats"
  THEN {"getTotalAmount", "getTotalCount", "getTotalByCategory"}
  ELSE {call}

\* an expense route receives a request; a route that writes is taken only
\* while the behaviour has a write left
ReceiveRequest(route, idParam, body, query) ==
  /\ req.pc \in {"idle", "done"}
  /\ route \in {"create", "update"} => CanWrite
  /\ req' = [NoRequest EXCEPT !.pc = Chain(route)[1], !.route = route,
                              !.idParam = idParam, !.body = body,
                              !.query = query]
  /\ UNCHANGED <<store, seq, now, pending, deleted, resp, vin, vmode, verrors,
                 listing, pages, stats, paged, nodeEnv>>

ChainValidateExpenseId ==
  /\ req.pc = "validateExpenseId"
  /\ LET id == validateExpenseId(req.idParam)
         r == Traced(req, "validateExpenseId")
     IN req' = AfterValidation([r EXCEPT !.expenseId = id], isNaN(id),
                 Body(400, <<"Invalid expense ID">>, <<>>, {}, <<>>))
  /\ UNCHANGED <<store, seq, now, pending, deleted, resp, vin, vmode, verrors,
                 listing, pages, stats, paged, nodeEnv>>

ChainValidateCreateExpense ==
  /\ req.pc = "validateCreateExpense"
  /\ LET errors == validateCreateExpense(req.body)
     IN req' = AfterValidation(Traced(req, "validateCreateExpense"),
                 errors # <<>>,
                 Body(400, <<"Validation failed">>, errors, {}, <<>>))
  /\ UNCHANGED <<store, seq, now, pending, deleted, resp, vin, vmode, verrors,
                 listing, pages, stats, paged, nodeEnv>>

ChainValidateUpdateExpense ==
  /\ req.pc = "validateUpdateExpense"
  /\ LET errors == validateUpdateExpense(req.body)
     IN req' = AfterValidation(Traced(req, "validateUpdateExpense"),
                 errors # <<>>,
                 Body(400, <<"Validation failed">>, errors, {}, <<>>))
  /\ UNCHANGED <<store, seq, now, pending, deleted, resp, vin, vmode, verrors,
                 listing, pages, stats, paged, nodeEnv>>

\* the handler up to its first storage call
ChainController ==
  /\ req.pc = "controller"
  /\ LET r == Traced(req, "controller")
     IN req' =
          IF SearchUnanswerable(r)
          THEN [Send(r, Body(400,
                  <<"Please provide either category or both startDate and endDate parameters">>,
                  <<>>, {}, <<>>)) EXCEPT !.pc = "done"]
          ELSE IF ControllerThrown(r) # {}
          THEN catchAsync(r, ControllerThrown(r))
          ELSE [r EXCEPT !.pc = "storage", !.call = FirstCall(r)]
  /\ UNCHANGED <<store, seq, now, pending, deleted, resp, vin, vmode, verrors,
                 listing, pages, stats, paged, nodeEnv>>

\* the storage call returns, or throws what the client throws for the
\* data it was given
ChainStorageReturns ==
  /\ req.pc = "storage"
  /\ \E o \in StorageOutcomes(Traced(req, "storage")) :
       /\ store' = o.store
       /\ seq' = o.seq
       /\ now' = o.now
       /\ deleted' = o.deleted
       /\ req' = o.req
  /\ UNCHANGED <<pending, resp, vin, vmode, verrors, listing, pages, stats,
                 paged, nodeEnv>>

\* the storage call fails; delete takes a failure that says the record does
\* not exist for a missing row
ChainStorageFails(cause) ==
  /\ req.pc = "storage"
  /\ LET r == Traced(req, "storage")
     IN \E call \in CallsOf(req.call) :
          req' =
            IF /\ call = "delete"
               /\ HasFragment(cause.message, "Record to delete does not exist")
            THEN NotFoundThrown(r)
            ELSE StorageThrown(r, {RepositoryThrown(r, call, cause)}, {cause})
  /\ UNCHANGED <<store, seq, now, pending, deleted, resp, vin, vmode, verrors,
                 listing, pages, stats, paged, nodeEnv>>

ChainErrorHandler ==
  /\ req.pc = "errorHandler"
  /\ \E error \in req.thrown :
       req' = [Send(Traced(req, "errorHandler"), ErrorBody(error, nodeEnv))
                 EXCEPT !.pc = "done"]
  /\ UNCHANGED <<store, seq, now, pending, deleted, resp, vin, vmode, verrors,
                 listing, pages, stats, paged, nodeEnv>>

ChainIdParams == {<<"1">>, <<"9">>, <<"1", "a">>, <<"a", "b", "c">>}

ChainCreateBodies ==
  {ValidCreateBody,
   [ValidCreateBody EXCEPT !.amount = Undefined],
   [ValidCreateBody EXCEPT !.currency = Str(<<"u", "s", "d">>),
                           !.name = Undefined]}

ChainUpdateBodies ==
  {BodyOf({}), BodyOf({"name"}), BodyOf({"amount", "invalidField"}),
   [EmptyBody EXCEPT !.amount = Num(AmountMax + 10)]}

ChainListQueries ==
  {EmptyQuery, [EmptyQuery EXCEPT !.limit = Str(<<"0">>)],
   [EmptyQuery EXCEPT !.limit = Str(<<"1">>)]}

ChainSearchQueries ==
  {EmptyQuery, [EmptyQuery EXCEPT !.category = Str(<<"F">>)],
   [EmptyQuery EXCEPT !.category = Str(<<" ">>)],
   [EmptyQuery EXCEPT !.startDate = Str(Iso2024), !.endDate = Str(Iso2025)],
   [EmptyQuery EXCEPT !.startDate = Str(Iso2025), !.endDate = Str(Iso2024)]}

InitChain ==
  /\ store = {}
  /\ seq = 0
  /\ now = ClockStart
  /\ pending = {}
  /\ deleted = {}
  /\ resp = NoResponse
  /\ vin = EmptyBody
  /\ vmode = "none"
  /\ verrors = <<>>
  /\ listing = NoListing
  /\ pages = <<>>
  /\ stats = NoStats
  /\ paged = NoPaged
  /\ req = NoRequest
  /\ nodeEnv \in {"production", "development"}

ChainStep ==
  \/ ChainValidateExpenseId
  \/ ChainValidateCreateExpense
  \/ ChainValidateUpdateExpense
  \/ ChainController
  \/ ChainStorageReturns
  \/ \E cause \in StorageFaults : ChainStorageFails(cause)
  \/ ChainErrorHandler

NextChain ==
  \/ \E body \in ChainCreateBodies :
       ReceiveRequest("create", NoId, body, EmptyQuery)
  \/ \E route \in {"get", "delete"}, idParam \in ChainIdParams :
       ReceiveRequest(route, idParam, EmptyBody, EmptyQuery)
  \/ \E idParam \in ChainIdParams, body \in ChainUpdateBodies :
       ReceiveRequest("update", idParam, body, EmptyQuery)
  \/ \E query \in ChainListQueries :
       ReceiveRequest("list", NoId, EmptyBody, query)
  \/ \E query \in ChainSearchQueries :
       ReceiveRequest("search", NoId, EmptyBody, query)
  \/ ReceiveRequest("stats", NoId, EmptyBody, EmptyQuery)
  \/ ChainStep

SpecChain == InitChain /\ [][NextChain]_vars

\* every stage runs when it can, and a storage call returns or fails
SpecChainFair == SpecChain /\ WF_vars(ChainStep)

\* the text of an error is part of the body of a response
Carries(body, error) ==
  \E i \in 1..Len(error.message) :
    \/ HasFragment(body.error, error.message[i])
    \/ \E stack \in body.stack : HasFragment(stack, error.message[i])

\* C22: a request whose handler threw a failure of the storage layer is
\* answered with status 500 and a body that holds no text of the failure
\* the storage engine reported.
C22_StorageFailureOpaque ==
  (req.pc = "done" /\ req.cause # {}) =>
    \A i \in 1..Len(req.sent) :
      /\ req.sent[i].status = 500
      /\ \A cause \in req.cause : ~Carries(req.sent[i], cause)

ValidationRejects(r) ==
  \/ r.route = "create" /\ validateCreateExpense(r.body) # <<>>
  \/ /\ r.route = "update"
     /\ \/ isNaN(validateExpenseId(r.idParam))
        \/ validateUpdateExpense(r.body) # <<>>

\* C24: no step of a create or update request that its validation
\* middleware rejects (the id check or the payload check) changes the
\* table or its sequence, its handler and the repository never run, and
\* its one response is the middleware's 400.
C24_RejectedRequestFrame ==
  [][ValidationRejects(req') =>
       /\ store' = store
       /\ seq' = seq
       /\ "controller" \notin Rows(req'.trace)
       /\ "storage" \notin Rows(req'.trace)
       /\ req'.pc = "done" =>
            /\ Len(req'.sent) = 1
            /\ req'.sent[1].status = 400]_vars

\* an update of an existing row is rejected for its amount
C24_Witness ==
  /\ req.pc = "done"
  /\ req.route = "update"
  /\ req.idParam = <<"1">>
  /\ RowsById(store, 1) # {}
  /\ req.body.amount = Num(AmountMax + 10)
  /\ ValidationRejects(req)

(***************************************************************************)
(* A paginated GET /api/expenses next to creates and deletes: findMany and *)
(* count of findAllPaginated are separate steps.                           *)
(***************************************************************************)
\* what findAllPaginated returns for the results of its two queries
PaginatedResult(expenses, total, options) ==
  LET limit == IF Falsy(options.limit) THEN 10 ELSE options.limit.n
      offset == IF Falsy(options.offset) THEN 0 ELSE options.offset.n
  IN [expenses |-> expenses,
      total |-> total,
      limit |-> limit,
      offset |-> offset,
      hasNext |-> offset + limit < total,
      hasPrevious |-> offset > 0]

\* getAllExpenses of the controller and of the service up to the two
\* queries, for a query that parses and asks for a page
GetPaged(query) ==
  /\ paged.pc # "querying"
  /\ parseGetExpensesQuery(query).thrown = {}
  /\ ServiceGetAllExpenses({}, query).page # {}
  /\ paged' = [NoPaged EXCEPT !.pc = "querying", !.query = query,
                 !.options = parseGetExpensesQuery(query).options]
  /\ UNCHANGED <<store, seq, now, pending, deleted, resp, vin, vmode, verrors,
                 listing, pages, stats, req, nodeEnv>>

PagedFindMany ==
  /\ paged.pc = "querying"
  /\ paged.expenses = {}
  /\ LET limit == IF Falsy(paged.options.limit) THEN 10
                  ELSE paged.options.limit.n
         offset == IF Falsy(paged.options.offset) THEN 0
                   ELSE paged.options.offset.n
     IN paged' =
          [paged EXCEPT !.expenses =
             {SkipTake(OrderBy(Where(paged.options, store)), offset, limit)}]
  /\ UNCHANGED <<store, seq, now, pending, deleted, resp, vin, vmode, verrors,
                 listing, pages, stats, req, nodeEnv>>

PagedCount ==
  /\ paged.pc = "querying"
  /\ paged.total = {}
  /\ paged' = [paged EXCEPT !.total =
                 {Cardinality(Where(paged.options, store))}]
  /\ UNCHANGED <<store, seq, now, pending, deleted, resp, vin, vmode, verrors,
                 listing, pages, stats, req, nodeEnv>>

\* Promise.all has resolved: the paginated response of the controller
PagedResponse ==
  /\ paged.pc = "querying"
  /\ \E expenses \in paged.expenses, total \in paged.total :
       listing' =
         ListResponse("list", paged.query, 200, <<>>, expenses,
           {Pagination(PaginatedResult(expenses, total, paged.options))},
           TRUE)
  /\ paged' = [paged EXCEPT !.pc = "done"]
  /\ UNCHANGED <<store, seq, now, pending, deleted, resp, vin, vmode, verrors,
                 pages, stats, req, nodeEnv>>

PagedQueries ==
  {[EmptyQuery EXCEPT !.limit = limit, !.offset = offset] :
     limit \in {Undefined, Str(<<"1">>), Str(<<"2">>)},
     offset \in {Undefined, Str(<<"0">>), Str(<<"1">>)}}

NextPaged ==
  \/ PostExpenses(ValidCreateBody)
  \/ \E idParam \in StatsIdParams : DeleteExpense(idParam)
  \/ \E query \in PagedQueries : GetPaged(query)
  \/ PagedFindMany
  \/ PagedCount
  \/ PagedResponse

SpecPaged == Init /\ [][NextPaged]_vars

\* C26: in every paginated response the number of rows is
\* min(limit, max(0, total - offset)) for the total, limit and offset of
\* the same response, whatever creates and deletes run between the row
\* query and the count query.
C26_PageConsistent ==
  \A pg \in listing.pagination :
    Len(listing.data) = Min(pg.limit, Max0(pg.total - pg.offset))

\* C27: in every paginated response pages is ceil(total / limit),
\* currentPage is floor(offset / limit) + 1, and hasNext is true exactly
\* when currentPage < pages.
C27_PageNumbersAgree ==
  (Listed /\ listing.status = 200) =>
    \A pg \in listing.pagination :
      /\ pg.pages * pg.limit >= pg.total
      /\ (pg.pages - 1) * pg.limit < pg.total \/ pg.total = 0
      /\ (pg.currentPage - 1) * pg.limit <= pg.offset
      /\ pg.currentPage * pg.limit > pg.offset
      /\ pg.hasNext <=> (pg.currentPage < pg.pages)

\* a text that is a decimal integer from its first to its last character,
\* with or without a minus sign
IsDecimalInteger(cs) ==
  LET digits == IF cs # <<>> /\ Head(cs) = "-" THEN Tail(cs) ELSE cs
  IN /\ digits # <<>>
     /\ \A i \in 1..Len(digits) : digits[i] \in Digits

\* C28: a limit whose text is not a decimal integer from end to end is
\* answered 400 'Limit must be a positive integer', and, the limit being
\* accepted or absent, an offset whose text is not a decimal integer from
\* end to end is answered 400 'Offset must be a non-negative integer'; no
\* numeric prefix of such a text is used.
C28_WholeTextIntegers ==
  Listed =>
    /\ (Supplied("limit") /\ ~IsDecimalInteger(listing.query.limit.s)) =>
         /\ listing.status = 400
         /\ listing.error = <<"Limit must be a positive integer">>
    /\ (/\ ~LimitBad
        /\ Supplied("offset")
        /\ ~IsDecimalInteger(listing.query.offset.s)) =>
         /\ listing.status = 400
         /\ listing.error = <<"Offset must be a non-negative integer">>

\* C29: an update request (PUT or PATCH) runs the id validation, then the
\* payload validation, then the handler with its lookup; one whose id
\* parameter is not the decimal text of a positive integer is answered
\* 400 'Invalid expense ID' whatever its body, and one with such an id and
\* a body the payload validation rejects is answered the 400 list of
\* field errors, whether a row with that id exists or not.
C29_UpdateCheckOrder ==
  (req.route = "update" /\ req.pc = "done") =>
    /\ req.trace[1] = "validateExpenseId"
    /\ Len(req.trace) >= 2 => req.trace[2] = "validateUpdateExpense"
    /\ Len(req.trace) >= 3 => req.trace[3] = "controller"
    /\ ~IsPositiveDecimal(req.idParam) =>
         req.sent = <<Body(400, <<"Invalid expense ID">>, <<>>, {}, <<>>)>>
    /\ (/\ IsPositiveDecimal(req.idParam)
        /\ validateUpdateExpense(req.body) # <<>>) =>
         req.sent = <<Body(400, <<"Validation failed">>,
                           validateUpdateExpense(req.body), {}, <<>>)>>

\* the request is at a validation middleware
AtMiddleware ==
  req.pc \in {"validateExpenseId", "validateCreateExpense",
              "validateUpdateExpense"}

====
